---------------------------- MODULE Spec2Model ----------------------------
(***************************************************************************)
(* A model of PIIDetector (src/pii_detector.py): the pattern detector, the *)
(* column-name heuristic, the uniqueness / risk scoring functions and the  *)
(* per-column loop of analyze_dataset.                                     *)
(*                                                                         *)
(* Conventions.                                                            *)
(*  - Python's None is the string None == "None".                          *)
(*  - A column name is the sequence of its code points; see the section    *)
(*    Strings.                                                             *)
(*  - A float is written as the fraction, or the product with a fraction,  *)
(*    that the code computes it from; see the section Floats.              *)
(*  - A cell of a column is [missing, core, pad]: NaN has missing = TRUE;  *)
(*    otherwise its text is core followed by the first pad characters of   *)
(*    the filler " ~~~~...".  The filler changes no pattern's verdict, so  *)
(*    which patterns the text contains is decided by core (SampleHits).    *)
(*  - A value rendered with a format (.2%, .2f) is the integer number of   *)
(*    hundredths it prints.                                                *)
(***************************************************************************)
EXTENDS Integers, Sequences, FiniteSets, TLC

VARIABLES
    call,             \* which method of PIIDetector has been called ("init": none yet)
    arg,              \* the argument of a direct call of a pure method
    ret,              \* what that call returned
    df,               \* analyze_dataset: the DataFrame, a sequence of columns
    idx,              \* analyze_dataset: number of columns the loop has processed
    results,          \* analyze_dataset: the list of findings
    pattern_sig,      \* analyze_dataset: (pattern_type, pattern_conf) of the last column
    heuristic_sig,    \* analyze_dataset: (heuristic_type, heuristic_conf) of the last column
    adopted           \* analyze_dataset: (pii_type, confidence, detection_method) of the last column

vars == <<call, arg, ret, df, idx, results, pattern_sig, heuristic_sig, adopted>>

None == "None"

(***************************************************************************)
(* Floats                                                                  *)
(*                                                                         *)
(* A float the code obtains as a quotient of two integers (a match ratio,  *)
(* a uniqueness) or writes as a literal (0.9, 0.3) is the record           *)
(* Frac(n, d): it stands for the double nearest to n / d.  The risk score  *)
(* 20 * impact * uniqueness is Product(20 * impact, uniqueness): it stands *)
(* for the double nearest to c times the double of u, and carries in n, d  *)
(* the value c * u.n / u.d of exact arithmetic.  Two floats whose exact    *)
(* values differ compare as these values do; where the exact values are    *)
(* equal, or lie on a rounding boundary of a format, the doubles           *)
(* themselves are computed, as a mantissa of at most 53 bits and an        *)
(* exponent.  Numerators and denominators are below 2^17.                  *)
(***************************************************************************)
Frac(a, b) == [n |-> a, d |-> b]

\* the float c * u (c an int, u a quotient float)
Product(c, u) == [n |-> c * u.n, d |-> u.d, c |-> c, u |-> u]

IsProduct(x) == "c" \in DOMAIN x

Zero == Frac(0, 1)

RECURSIVE NatBits(_)
\* the binary digits of a natural number, most significant first
NatBits(k) == IF k = 0 THEN <<>> ELSE Append(NatBits(k \div 2), k % 2)

RECURSIVE BitsNat(_)
BitsNat(b) == IF b = <<>> THEN 0 ELSE 2 * BitsNat(SubSeq(b, 1, Len(b) - 1)) + b[Len(b)]

Zeros(k) == [i \in 1..k |-> 0]

\* the 13 binary digits of k < 2^13
Limb(k) == Zeros(13 - Len(NatBits(k))) \o NatBits(k)

\* b without its leading zeros
Leading(b) ==
    IF \A i \in 1..Len(b) : b[i] = 0 THEN <<>>
    ELSE SubSeq(b, CHOOSE i \in 1..Len(b) : b[i] = 1 /\ \A j \in 1..(i - 1) : b[j] = 0,
                Len(b))

\* b + 1
IncBits(b) ==
    IF \A i \in 1..Len(b) : b[i] = 1 THEN <<1>> \o Zeros(Len(b))
    ELSE LET i == CHOOSE j \in 1..Len(b) : b[j] = 0 /\ \A k \in (j + 1)..Len(b) : b[k] = 1
         IN  SubSeq(b, 1, i - 1) \o <<1>> \o Zeros(Len(b) - i)

RECURSIVE MulLimbs(_, _, _)
\* b * c + carry for a natural c < 2^17, 13 bits of b at a time
MulLimbs(b, c, carry) ==
    IF b = <<>> THEN NatBits(carry)
    ELSE LET cut == IF Len(b) > 13 THEN Len(b) - 13 ELSE 0
             t == BitsNat(SubSeq(b, cut + 1, Len(b))) * c + carry
         IN  MulLimbs(SubSeq(b, 1, cut), c, t \div 8192) \o Limb(t % 8192)

MulBits(b, c) == Leading(MulLimbs(b, c, 0))

\* the double m * 2^e with its trailing zero bits moved into the exponent
Normal(m, e) ==
    IF \A i \in 1..Len(m) : m[i] = 0 THEN [m |-> <<>>, e |-> 0]
    ELSE LET last == CHOOSE i \in 1..Len(m) : m[i] = 1 /\ \A j \in (i + 1)..Len(m) : m[j] = 0
         IN  [m |-> SubSeq(m, 1, last), e |-> e + Len(m) - last]

\* round-to-nearest, ties to even, of (b + a fraction in [0, 1)) * 2^e to 53
\* bits; b has no leading zero, and sticky says that the fraction is not 0
\* (then b has at least 54 bits)
RoundBits(b, sticky, e) ==
    IF Len(b) <= 53 THEN Normal(b, e)
    ELSE LET keep == SubSeq(b, 1, 53)
             rest == sticky \/ \E i \in 55..Len(b) : b[i] = 1
             up == b[54] = 1 /\ (rest \/ keep[53] = 1)
         IN  Normal(IF up THEN IncBits(keep) ELSE keep, e + Len(b) - 53)

RECURSIVE QuotBits(_, _, _, _)
\* long division, 13 bits at a time: the bits b of the quotient so far, the
\* remainder r, the divisor d < 2^17, and the number f of bits after the binary
\* point
QuotBits(b, r, d, f) ==
    IF r = 0 \/ Len(b) >= 54 THEN RoundBits(b, r # 0, 0 - f)
    ELSE QuotBits(Leading(b \o Limb((8192 * r) \div d)), (8192 * r) % d, d, f + 13)

\* int / int: the double nearest to a / b
DivDouble(a, b) == QuotBits(NatBits(a \div b), a % b, b, 0)

\* int * float, float * int
MulDouble(y, k) ==
    IF k = 0 \/ y.m = <<>> THEN [m |-> <<>>, e |-> 0]
    ELSE RoundBits(MulBits(y.m, k), FALSE, y.e)

\* the double a float stands for
ToDouble(x) ==
    IF IsProduct(x) THEN MulDouble(DivDouble(x.u.n, x.u.d), x.c)
    ELSE DivDouble(x.n, x.d)

\* -1, 0, 1 as the natural number a is below, equal to, above b (bits without
\* leading zeros)
CmpBits(a, b) ==
    IF Len(a) # Len(b) THEN (IF Len(a) < Len(b) THEN -1 ELSE 1)
    ELSE IF a = b THEN 0
    ELSE LET i == CHOOSE j \in 1..Len(a) :
                      a[j] # b[j] /\ \A k \in 1..(j - 1) : a[k] = b[k]
         IN  IF a[i] < b[i] THEN -1 ELSE 1

\* -1, 0, 1 as the double p is below, equal to, above the double q
CmpDouble(p, q) ==
    IF p.m = <<>> \/ q.m = <<>>
    THEN (IF p.m = q.m THEN 0 ELSE IF p.m = <<>> THEN -1 ELSE 1)
    ELSE LET e == IF p.e < q.e THEN p.e ELSE q.e
         IN  CmpBits(p.m \o Zeros(p.e - e), q.m \o Zeros(q.e - e))

\* -1, 0, 1 as the float x is below, equal to, above the float y
CmpFloat(x, y) ==
    IF x.n * y.d # y.n * x.d THEN (IF x.n * y.d < y.n * x.d THEN -1 ELSE 1)
    ELSE IF ~IsProduct(x) /\ ~IsProduct(y) THEN 0
    ELSE CmpDouble(ToDouble(x), ToDouble(y))

Gt(x, y) == CmpFloat(x, y) = 1

Le(x, y) == CmpFloat(x, y) # 1

\* equal in exact arithmetic
EqF(x, y) == x.n * y.d = y.n * x.d

\* round-half-even of a / b (a >= 0, b > 0)
RoundDiv(a, b) ==
    LET q == a \div b
        r == a % b
    IN  IF 2 * r < b THEN q
        ELSE IF 2 * r > b THEN q + 1
        ELSE IF q % 2 = 0 THEN q ELSE q + 1

\* the double x, times 100, rounded half-even to an integer: its digits with
\* two decimals
Hundredths(x) ==
    IF x.m = <<>> THEN 0
    ELSE LET h == MulBits(x.m, 100)
             cut == Len(h) + x.e
         IN  IF x.e >= 0 THEN BitsNat(h \o Zeros(x.e))
             ELSE IF cut < 0 THEN 0
             ELSE LET q == BitsNat(SubSeq(h, 1, cut))
                      half == h[cut + 1] = 1
                      rest == \E i \in (cut + 2)..Len(h) : h[i] = 1
                  IN  IF half /\ (rest \/ q % 2 = 1) THEN q + 1 ELSE q

\* a / b lies exactly between two neighbouring integers
IsTie(a, b) == 2 * (a % b) = b

\* f"{x:.2%}" as hundredths of a percent: the double x is multiplied by 100 and
\* printed with two decimals.  Off a tie the rounding errors of the doubles are
\* too small to change the digits, and the exact value decides.
FormatPct2(x) ==
    IF IsTie(10000 * x.n, x.d) THEN Hundredths(MulDouble(ToDouble(x), 100))
    ELSE RoundDiv(10000 * x.n, x.d)

\* f"{x:.2f}" as hundredths
FormatFix2(x) ==
    IF IsTie(100 * x.n, x.d) THEN Hundredths(ToDouble(x))
    ELSE RoundDiv(100 * x.n, x.d)

(***************************************************************************)
(* Strings                                                                 *)
(*                                                                         *)
(* A column name or keyword, the str that lower(), strip(), split() and in *)
(* act on, is the sequence of its code points: "id" is <<105, 100>>.       *)
(* Codes writes such a sequence from a literal of printable ASCII.  The    *)
(* case and whitespace tables are those of the Unicode database of the     *)
(* interpreter (Unicode 14.0), which str.lower() and str.strip() consult.  *)
(***************************************************************************)
\* the printable ASCII characters U+0020..U+005F and U+0061..U+007E, in order
AsciiLow == " !\"#$%&'()*+,-./0123456789:;<=>?@ABCDEFGHIJKLMNOPQRSTUVWXYZ[\\]^_"

AsciiHigh == "abcdefghijklmnopqrstuvwxyz{|}~"

\* ord(c) of a one-character literal
ord(c) ==
    IF \E i \in 1..Len(AsciiLow) : SubSeq(AsciiLow, i, i) = c
    THEN 31 + (CHOOSE i \in 1..Len(AsciiLow) : SubSeq(AsciiLow, i, i) = c)
    ELSE 96 + (CHOOSE i \in 1..Len(AsciiHigh) : SubSeq(AsciiHigh, i, i) = c)

\* the str a literal denotes
Codes(s) == [i \in 1..Len(s) |-> ord(SubSeq(s, i, i))]

\* Python's  sub in s
Contains(s, sub) ==
    \E i \in 1..(Len(s) - Len(sub) + 1) : SubSeq(s, i, i + Len(sub) - 1) = sub

\* the simple lowercase mappings: <<first, last, step, delta>> sends the code
\* points first, first + step, ..., last to themselves plus delta
ToLowerTable ==
    { <<65, 90, 1, 32>>, <<192, 214, 1, 32>>, <<216, 222, 1, 32>>, <<256, 302, 2, 1>>,
      <<306, 310, 2, 1>>, <<313, 327, 2, 1>>, <<330, 374, 2, 1>>, <<376, 376, 1, -121>>,
      <<377, 381, 2, 1>>, <<385, 385, 1, 210>>, <<386, 388, 2, 1>>, <<390, 390, 1, 206>>,
      <<391, 391, 1, 1>>, <<393, 394, 1, 205>>, <<395, 395, 1, 1>>, <<398, 398, 1, 79>>,
      <<399, 399, 1, 202>>, <<400, 400, 1, 203>>, <<401, 401, 1, 1>>, <<403, 403, 1, 205>>,
      <<404, 404, 1, 207>>, <<406, 406, 1, 211>>, <<407, 407, 1, 209>>, <<408, 408, 1, 1>>,
      <<412, 412, 1, 211>>, <<413, 413, 1, 213>>, <<415, 415, 1, 214>>, <<416, 420, 2, 1>>,
      <<422, 422, 1, 218>>, <<423, 423, 1, 1>>, <<425, 425, 1, 218>>, <<428, 428, 1, 1>>,
      <<430, 430, 1, 218>>, <<431, 431, 1, 1>>, <<433, 434, 1, 217>>, <<435, 437, 2, 1>>,
      <<439, 439, 1, 219>>, <<440, 440, 1, 1>>, <<444, 444, 1, 1>>, <<452, 452, 1, 2>>,
      <<453, 453, 1, 1>>, <<455, 455, 1, 2>>, <<456, 456, 1, 1>>, <<458, 458, 1, 2>>,
      <<459, 475, 2, 1>>, <<478, 494, 2, 1>>, <<497, 497, 1, 2>>, <<498, 500, 2, 1>>,
      <<502, 502, 1, -97>>, <<503, 503, 1, -56>>, <<504, 542, 2, 1>>, <<544, 544, 1, -130>>,
      <<546, 562, 2, 1>>, <<570, 570, 1, 10795>>, <<571, 571, 1, 1>>, <<573, 573, 1, -163>>,
      <<574, 574, 1, 10792>>, <<577, 577, 1, 1>>, <<579, 579, 1, -195>>, <<580, 580, 1, 69>>,
      <<581, 581, 1, 71>>, <<582, 590, 2, 1>>, <<880, 882, 2, 1>>, <<886, 886, 1, 1>>,
      <<895, 895, 1, 116>>, <<902, 902, 1, 38>>, <<904, 906, 1, 37>>, <<908, 908, 1, 64>>,
      <<910, 911, 1, 63>>, <<913, 929, 1, 32>>, <<931, 939, 1, 32>>, <<975, 975, 1, 8>>,
      <<984, 1006, 2, 1>>, <<1012, 1012, 1, -60>>, <<1015, 1015, 1, 1>>, <<1017, 1017, 1, -7>>,
      <<1018, 1018, 1, 1>>, <<1021, 1023, 1, -130>>, <<1024, 1039, 1, 80>>, <<1040, 1071, 1, 32>>,
      <<1120, 1152, 2, 1>>, <<1162, 1214, 2, 1>>, <<1216, 1216, 1, 15>>, <<1217, 1229, 2, 1>>,
      <<1232, 1326, 2, 1>>, <<1329, 1366, 1, 48>>, <<4256, 4293, 1, 7264>>, <<4295, 4295, 1, 7264>>,
      <<4301, 4301, 1, 7264>>, <<5024, 5103, 1, 38864>>, <<5104, 5109, 1, 8>>, <<7312, 7354, 1, -3008>>,
      <<7357, 7359, 1, -3008>>, <<7680, 7828, 2, 1>>, <<7838, 7838, 1, -7615>>, <<7840, 7934, 2, 1>>,
      <<7944, 7951, 1, -8>>, <<7960, 7965, 1, -8>>, <<7976, 7983, 1, -8>>, <<7992, 7999, 1, -8>>,
      <<8008, 8013, 1, -8>>, <<8025, 8031, 2, -8>>, <<8040, 8047, 1, -8>>, <<8072, 8079, 1, -8>>,
      <<8088, 8095, 1, -8>>, <<8104, 8111, 1, -8>>, <<8120, 8121, 1, -8>>, <<8122, 8123, 1, -74>>,
      <<8124, 8124, 1, -9>>, <<8136, 8139, 1, -86>>, <<8140, 8140, 1, -9>>, <<8152, 8153, 1, -8>>,
      <<8154, 8155, 1, -100>>, <<8168, 8169, 1, -8>>, <<8170, 8171, 1, -112>>, <<8172, 8172, 1, -7>>,
      <<8184, 8185, 1, -128>>, <<8186, 8187, 1, -126>>, <<8188, 8188, 1, -9>>, <<8486, 8486, 1, -7517>>,
      <<8490, 8490, 1, -8383>>, <<8491, 8491, 1, -8262>>, <<8498, 8498, 1, 28>>, <<8544, 8559, 1, 16>>,
      <<8579, 8579, 1, 1>>, <<9398, 9423, 1, 26>>, <<11264, 11311, 1, 48>>, <<11360, 11360, 1, 1>>,
      <<11362, 11362, 1, -10743>>, <<11363, 11363, 1, -3814>>, <<11364, 11364, 1, -10727>>, <<11367, 11371, 2, 1>>,
      <<11373, 11373, 1, -10780>>, <<11374, 11374, 1, -10749>>, <<11375, 11375, 1, -10783>>, <<11376, 11376, 1, -10782>>,
      <<11378, 11378, 1, 1>>, <<11381, 11381, 1, 1>>, <<11390, 11391, 1, -10815>>, <<11392, 11490, 2, 1>>,
      <<11499, 11501, 2, 1>>, <<11506, 11506, 1, 1>>, <<42560, 42604, 2, 1>>, <<42624, 42650, 2, 1>>,
      <<42786, 42798, 2, 1>>, <<42802, 42862, 2, 1>>, <<42873, 42875, 2, 1>>, <<42877, 42877, 1, -35332>>,
      <<42878, 42886, 2, 1>>, <<42891, 42891, 1, 1>>, <<42893, 42893, 1, -42280>>, <<42896, 42898, 2, 1>>,
      <<42902, 42920, 2, 1>>, <<42922, 42922, 1, -42308>>, <<42923, 42923, 1, -42319>>, <<42924, 42924, 1, -42315>>,
      <<42925, 42925, 1, -42305>>, <<42926, 42926, 1, -42308>>, <<42928, 42928, 1, -42258>>, <<42929, 42929, 1, -42282>>,
      <<42930, 42930, 1, -42261>>, <<42931, 42931, 1, 928>>, <<42932, 42946, 2, 1>>, <<42948, 42948, 1, -48>>,
      <<42949, 42949, 1, -42307>>, <<42950, 42950, 1, -35384>>, <<42951, 42953, 2, 1>>, <<42960, 42960, 1, 1>>,
      <<42966, 42968, 2, 1>>, <<42997, 42997, 1, 1>>, <<65313, 65338, 1, 32>>, <<66560, 66599, 1, 40>>,
      <<66736, 66771, 1, 40>>, <<66928, 66938, 1, 39>>, <<66940, 66954, 1, 39>>, <<66956, 66962, 1, 39>>,
      <<66964, 66965, 1, 39>>, <<68736, 68786, 1, 64>>, <<71840, 71871, 1, 32>>, <<93760, 93791, 1, 32>>,
      <<125184, 125217, 1, 34>> }

\* the code points with the property Case_Ignorable, as <<first, last>>
CaseIgnorableTable ==
    { <<39, 39>>, <<46, 46>>, <<58, 58>>, <<94, 94>>, <<96, 96>>, <<168, 168>>,
      <<173, 173>>, <<175, 175>>, <<180, 180>>, <<183, 184>>, <<688, 879>>, <<884, 885>>,
      <<890, 890>>, <<900, 901>>, <<903, 903>>, <<1155, 1161>>, <<1369, 1369>>, <<1375, 1375>>,
      <<1425, 1469>>, <<1471, 1471>>, <<1473, 1474>>, <<1476, 1477>>, <<1479, 1479>>, <<1524, 1524>>,
      <<1536, 1541>>, <<1552, 1562>>, <<1564, 1564>>, <<1600, 1600>>, <<1611, 1631>>, <<1648, 1648>>,
      <<1750, 1757>>, <<1759, 1768>>, <<1770, 1773>>, <<1807, 1807>>, <<1809, 1809>>, <<1840, 1866>>,
      <<1958, 1968>>, <<2027, 2037>>, <<2042, 2042>>, <<2045, 2045>>, <<2070, 2093>>, <<2137, 2139>>,
      <<2184, 2184>>, <<2192, 2193>>, <<2200, 2207>>, <<2249, 2306>>, <<2362, 2362>>, <<2364, 2364>>,
      <<2369, 2376>>, <<2381, 2381>>, <<2385, 2391>>, <<2402, 2403>>, <<2417, 2417>>, <<2433, 2433>>,
      <<2492, 2492>>, <<2497, 2500>>, <<2509, 2509>>, <<2530, 2531>>, <<2558, 2558>>, <<2561, 2562>>,
      <<2620, 2620>>, <<2625, 2626>>, <<2631, 2632>>, <<2635, 2637>>, <<2641, 2641>>, <<2672, 2673>>,
      <<2677, 2677>>, <<2689, 2690>>, <<2748, 2748>>, <<2753, 2757>>, <<2759, 2760>>, <<2765, 2765>>,
      <<2786, 2787>>, <<2810, 2815>>, <<2817, 2817>>, <<2876, 2876>>, <<2879, 2879>>, <<2881, 2884>>,
      <<2893, 2893>>, <<2901, 2902>>, <<2914, 2915>>, <<2946, 2946>>, <<3008, 3008>>, <<3021, 3021>>,
      <<3072, 3072>>, <<3076, 3076>>, <<3132, 3132>>, <<3134, 3136>>, <<3142, 3144>>, <<3146, 3149>>,
      <<3157, 3158>>, <<3170, 3171>>, <<3201, 3201>>, <<3260, 3260>>, <<3263, 3263>>, <<3270, 3270>>,
      <<3276, 3277>>, <<3298, 3299>>, <<3328, 3329>>, <<3387, 3388>>, <<3393, 3396>>, <<3405, 3405>>,
      <<3426, 3427>>, <<3457, 3457>>, <<3530, 3530>>, <<3538, 3540>>, <<3542, 3542>>, <<3633, 3633>>,
      <<3636, 3642>>, <<3654, 3662>>, <<3761, 3761>>, <<3764, 3772>>, <<3782, 3782>>, <<3784, 3789>>,
      <<3864, 3865>>, <<3893, 3893>>, <<3895, 3895>>, <<3897, 3897>>, <<3953, 3966>>, <<3968, 3972>>,
      <<3974, 3975>>, <<3981, 3991>>, <<3993, 4028>>, <<4038, 4038>>, <<4141, 4144>>, <<4146, 4151>>,
      <<4153, 4154>>, <<4157, 4158>>, <<4184, 4185>>, <<4190, 4192>>, <<4209, 4212>>, <<4226, 4226>>,
      <<4229, 4230>>, <<4237, 4237>>, <<4253, 4253>>, <<4348, 4348>>, <<4957, 4959>>, <<5906, 5908>>,
      <<5938, 5939>>, <<5970, 5971>>, <<6002, 6003>>, <<6068, 6069>>, <<6071, 6077>>, <<6086, 6086>>,
      <<6089, 6099>>, <<6103, 6103>>, <<6109, 6109>>, <<6155, 6159>>, <<6211, 6211>>, <<6277, 6278>>,
      <<6313, 6313>>, <<6432, 6434>>, <<6439, 6440>>, <<6450, 6450>>, <<6457, 6459>>, <<6679, 6680>>,
      <<6683, 6683>>, <<6742, 6742>>, <<6744, 6750>>, <<6752, 6752>>, <<6754, 6754>>, <<6757, 6764>>,
      <<6771, 6780>>, <<6783, 6783>>, <<6823, 6823>>, <<6832, 6862>>, <<6912, 6915>>, <<6964, 6964>>,
      <<6966, 6970>>, <<6972, 6972>>, <<6978, 6978>>, <<7019, 7027>>, <<7040, 7041>>, <<7074, 7077>>,
      <<7080, 7081>>, <<7083, 7085>>, <<7142, 7142>>, <<7144, 7145>>, <<7149, 7149>>, <<7151, 7153>>,
      <<7212, 7219>>, <<7222, 7223>>, <<7288, 7293>>, <<7376, 7378>>, <<7380, 7392>>, <<7394, 7400>>,
      <<7405, 7405>>, <<7412, 7412>>, <<7416, 7417>>, <<7468, 7530>>, <<7544, 7544>>, <<7579, 7679>>,
      <<8125, 8125>>, <<8127, 8129>>, <<8141, 8143>>, <<8157, 8159>>, <<8173, 8175>>, <<8189, 8190>>,
      <<8203, 8207>>, <<8216, 8217>>, <<8228, 8228>>, <<8231, 8231>>, <<8234, 8238>>, <<8288, 8292>>,
      <<8294, 8303>>, <<8305, 8305>>, <<8319, 8319>>, <<8336, 8348>>, <<8400, 8432>>, <<11388, 11389>>,
      <<11503, 11505>>, <<11631, 11631>>, <<11647, 11647>>, <<11744, 11775>>, <<11823, 11823>>, <<12293, 12293>>,
      <<12330, 12333>>, <<12337, 12341>>, <<12347, 12347>>, <<12441, 12446>>, <<12540, 12542>>, <<40981, 40981>>,
      <<42232, 42237>>, <<42508, 42508>>, <<42607, 42610>>, <<42612, 42621>>, <<42623, 42623>>, <<42652, 42655>>,
      <<42736, 42737>>, <<42752, 42785>>, <<42864, 42864>>, <<42888, 42890>>, <<42994, 42996>>, <<43000, 43001>>,
      <<43010, 43010>>, <<43014, 43014>>, <<43019, 43019>>, <<43045, 43046>>, <<43052, 43052>>, <<43204, 43205>>,
      <<43232, 43249>>, <<43263, 43263>>, <<43302, 43309>>, <<43335, 43345>>, <<43392, 43394>>, <<43443, 43443>>,
      <<43446, 43449>>, <<43452, 43453>>, <<43471, 43471>>, <<43493, 43494>>, <<43561, 43566>>, <<43569, 43570>>,
      <<43573, 43574>>, <<43587, 43587>>, <<43596, 43596>>, <<43632, 43632>>, <<43644, 43644>>, <<43696, 43696>>,
      <<43698, 43700>>, <<43703, 43704>>, <<43710, 43711>>, <<43713, 43713>>, <<43741, 43741>>, <<43756, 43757>>,
      <<43763, 43764>>, <<43766, 43766>>, <<43867, 43871>>, <<43881, 43883>>, <<44005, 44005>>, <<44008, 44008>>,
      <<44013, 44013>>, <<64286, 64286>>, <<64434, 64450>>, <<65024, 65039>>, <<65043, 65043>>, <<65056, 65071>>,
      <<65106, 65106>>, <<65109, 65109>>, <<65279, 65279>>, <<65287, 65287>>, <<65294, 65294>>, <<65306, 65306>>,
      <<65342, 65342>>, <<65344, 65344>>, <<65392, 65392>>, <<65438, 65439>>, <<65507, 65507>>, <<65529, 65531>>,
      <<66045, 66045>>, <<66272, 66272>>, <<66422, 66426>>, <<67456, 67461>>, <<67463, 67504>>, <<67506, 67514>>,
      <<68097, 68099>>, <<68101, 68102>>, <<68108, 68111>>, <<68152, 68154>>, <<68159, 68159>>, <<68325, 68326>>,
      <<68900, 68903>>, <<69291, 69292>>, <<69446, 69456>>, <<69506, 69509>>, <<69633, 69633>>, <<69688, 69702>>,
      <<69744, 69744>>, <<69747, 69748>>, <<69759, 69761>>, <<69811, 69814>>, <<69817, 69818>>, <<69821, 69821>>,
      <<69826, 69826>>, <<69837, 69837>>, <<69888, 69890>>, <<69927, 69931>>, <<69933, 69940>>, <<70003, 70003>>,
      <<70016, 70017>>, <<70070, 70078>>, <<70089, 70092>>, <<70095, 70095>>, <<70191, 70193>>, <<70196, 70196>>,
      <<70198, 70199>>, <<70206, 70206>>, <<70367, 70367>>, <<70371, 70378>>, <<70400, 70401>>, <<70459, 70460>>,
      <<70464, 70464>>, <<70502, 70508>>, <<70512, 70516>>, <<70712, 70719>>, <<70722, 70724>>, <<70726, 70726>>,
      <<70750, 70750>>, <<70835, 70840>>, <<70842, 70842>>, <<70847, 70848>>, <<70850, 70851>>, <<71090, 71093>>,
      <<71100, 71101>>, <<71103, 71104>>, <<71132, 71133>>, <<71219, 71226>>, <<71229, 71229>>, <<71231, 71232>>,
      <<71339, 71339>>, <<71341, 71341>>, <<71344, 71349>>, <<71351, 71351>>, <<71453, 71455>>, <<71458, 71461>>,
      <<71463, 71467>>, <<71727, 71735>>, <<71737, 71738>>, <<71995, 71996>>, <<71998, 71998>>, <<72003, 72003>>,
      <<72148, 72151>>, <<72154, 72155>>, <<72160, 72160>>, <<72193, 72202>>, <<72243, 72248>>, <<72251, 72254>>,
      <<72263, 72263>>, <<72273, 72278>>, <<72281, 72283>>, <<72330, 72342>>, <<72344, 72345>>, <<72752, 72758>>,
      <<72760, 72765>>, <<72767, 72767>>, <<72850, 72871>>, <<72874, 72880>>, <<72882, 72883>>, <<72885, 72886>>,
      <<73009, 73014>>, <<73018, 73018>>, <<73020, 73021>>, <<73023, 73029>>, <<73031, 73031>>, <<73104, 73105>>,
      <<73109, 73109>>, <<73111, 73111>>, <<73459, 73460>>, <<78896, 78904>>, <<92912, 92916>>, <<92976, 92982>>,
      <<92992, 92995>>, <<94031, 94031>>, <<94095, 94111>>, <<94176, 94177>>, <<94179, 94180>>, <<110576, 110579>>,
      <<110581, 110587>>, <<110589, 110590>>, <<113821, 113822>>, <<113824, 113827>>, <<118528, 118573>>, <<118576, 118598>>,
      <<119143, 119145>>, <<119155, 119170>>, <<119173, 119179>>, <<119210, 119213>>, <<119362, 119364>>, <<121344, 121398>>,
      <<121403, 121452>>, <<121461, 121461>>, <<121476, 121476>>, <<121499, 121503>>, <<121505, 121519>>, <<122880, 122886>>,
      <<122888, 122904>>, <<122907, 122913>>, <<122915, 122916>>, <<122918, 122922>>, <<123184, 123197>>, <<123566, 123566>>,
      <<123628, 123631>>, <<125136, 125142>>, <<125252, 125259>>, <<127995, 127999>>, <<917505, 917505>>, <<917536, 917631>>,
      <<917760, 917999>> }

\* the code points with the property Cased, as <<first, last>>
CasedTable ==
    { <<65, 90>>, <<97, 122>>, <<170, 170>>, <<181, 181>>, <<186, 186>>, <<192, 214>>,
      <<216, 246>>, <<248, 442>>, <<444, 447>>, <<452, 659>>, <<661, 696>>, <<704, 705>>,
      <<736, 740>>, <<837, 837>>, <<880, 883>>, <<886, 887>>, <<890, 893>>, <<895, 895>>,
      <<902, 902>>, <<904, 906>>, <<908, 908>>, <<910, 929>>, <<931, 1013>>, <<1015, 1153>>,
      <<1162, 1327>>, <<1329, 1366>>, <<1376, 1416>>, <<4256, 4293>>, <<4295, 4295>>, <<4301, 4301>>,
      <<4304, 4346>>, <<4349, 4351>>, <<5024, 5109>>, <<5112, 5117>>, <<7296, 7304>>, <<7312, 7354>>,
      <<7357, 7359>>, <<7424, 7615>>, <<7680, 7957>>, <<7960, 7965>>, <<7968, 8005>>, <<8008, 8013>>,
      <<8016, 8023>>, <<8025, 8025>>, <<8027, 8027>>, <<8029, 8029>>, <<8031, 8061>>, <<8064, 8116>>,
      <<8118, 8124>>, <<8126, 8126>>, <<8130, 8132>>, <<8134, 8140>>, <<8144, 8147>>, <<8150, 8155>>,
      <<8160, 8172>>, <<8178, 8180>>, <<8182, 8188>>, <<8305, 8305>>, <<8319, 8319>>, <<8336, 8348>>,
      <<8450, 8450>>, <<8455, 8455>>, <<8458, 8467>>, <<8469, 8469>>, <<8473, 8477>>, <<8484, 8484>>,
      <<8486, 8486>>, <<8488, 8488>>, <<8490, 8493>>, <<8495, 8500>>, <<8505, 8505>>, <<8508, 8511>>,
      <<8517, 8521>>, <<8526, 8526>>, <<8544, 8575>>, <<8579, 8580>>, <<9398, 9449>>, <<11264, 11492>>,
      <<11499, 11502>>, <<11506, 11507>>, <<11520, 11557>>, <<11559, 11559>>, <<11565, 11565>>, <<42560, 42605>>,
      <<42624, 42653>>, <<42786, 42887>>, <<42891, 42894>>, <<42896, 42954>>, <<42960, 42961>>, <<42963, 42963>>,
      <<42965, 42969>>, <<42997, 42998>>, <<43000, 43002>>, <<43824, 43866>>, <<43868, 43880>>, <<43888, 43967>>,
      <<64256, 64262>>, <<64275, 64279>>, <<65313, 65338>>, <<65345, 65370>>, <<66560, 66639>>, <<66736, 66771>>,
      <<66776, 66811>>, <<66928, 66938>>, <<66940, 66954>>, <<66956, 66962>>, <<66964, 66965>>, <<66967, 66977>>,
      <<66979, 66993>>, <<66995, 67001>>, <<67003, 67004>>, <<67456, 67456>>, <<67459, 67461>>, <<67463, 67504>>,
      <<67506, 67514>>, <<68736, 68786>>, <<68800, 68850>>, <<71840, 71903>>, <<93760, 93823>>, <<119808, 119892>>,
      <<119894, 119964>>, <<119966, 119967>>, <<119970, 119970>>, <<119973, 119974>>, <<119977, 119980>>, <<119982, 119993>>,
      <<119995, 119995>>, <<119997, 120003>>, <<120005, 120069>>, <<120071, 120074>>, <<120077, 120084>>, <<120086, 120092>>,
      <<120094, 120121>>, <<120123, 120126>>, <<120128, 120132>>, <<120134, 120134>>, <<120138, 120144>>, <<120146, 120485>>,
      <<120488, 120512>>, <<120514, 120538>>, <<120540, 120570>>, <<120572, 120596>>, <<120598, 120628>>, <<120630, 120654>>,
      <<120656, 120686>>, <<120688, 120712>>, <<120714, 120744>>, <<120746, 120770>>, <<120772, 120779>>, <<122624, 122633>>,
      <<122635, 122654>>, <<125184, 125251>>, <<127280, 127305>>, <<127312, 127337>>, <<127344, 127369>> }

InRanges(c, table) == \E r \in table : r[1] <= c /\ c <= r[2]

\* _PyUnicode_IsCaseIgnorable
IsCaseIgnorable(c) == InRanges(c, CaseIgnorableTable)

\* _PyUnicode_IsCased
IsCased(c) == InRanges(c, CasedTable)

\* the lowercase of one character out of context, a str of one or two characters
\* (_PyUnicode_ToLowerFull; U+0130 is the one character with a longer mapping)
LowerChar(c) ==
    IF c < 128 THEN <<IF c \in 65..90 THEN c + 32 ELSE c>>
    ELSE IF c = 304 THEN <<105, 775>>
    ELSE LET hits == {r \in ToLowerTable :
                         r[1] <= c /\ c <= r[2] /\ (c - r[1]) % r[3] = 0}
         IN  IF hits = {} THEN <<c>> ELSE <<c + (CHOOSE r \in hits : TRUE)[4]>>

\* handle_capital_sigma: U+03A3 at position i becomes the final sigma U+03C2
\* when a cased character precedes it and none follows it, case-ignorable
\* characters skipped on both sides; otherwise U+03C3
handle_capital_sigma(s, i) ==
    LET before == {j \in 1..(i - 1) : ~IsCaseIgnorable(s[j])}
        after == {j \in (i + 1)..Len(s) : ~IsCaseIgnorable(s[j])}
        j == CHOOSE m \in before : \A n \in before : n <= m
        k == CHOOSE m \in after : \A n \in after : m <= n
    IN  IF /\ before # {}
           /\ IsCased(s[j])
           /\ (after = {} \/ ~IsCased(s[k]))
        THEN 962 ELSE 963

\* lower_ucs4
lower_ucs4(s, i) ==
    IF s[i] = 931 THEN <<handle_capital_sigma(s, i)>> ELSE LowerChar(s[i])

RECURSIVE do_lower(_, _)
\* the characters of s from position i on, lowered
do_lower(s, i) == IF i > Len(s) THEN <<>> ELSE lower_ucs4(s, i) \o do_lower(s, i + 1)

\* str.lower()
Lower(s) == do_lower(s, 1)

\* the code points str.strip() removes (Py_UNICODE_ISSPACE)
WhitespaceChars ==
    {9, 10, 11, 12, 13, 28, 29, 30, 31, 32, 133, 160, 5760,
     8192, 8193, 8194, 8195, 8196, 8197, 8198, 8199, 8200, 8201, 8202,
     8232, 8233, 8239, 8287, 12288}

IsSpace(c) == c \in WhitespaceChars

RECURSIVE Strip(_)
\* str.strip()
Strip(s) ==
    IF s = <<>> THEN <<>>
    ELSE IF IsSpace(s[1]) THEN Strip(SubSeq(s, 2, Len(s)))
    ELSE IF IsSpace(s[Len(s)]) THEN Strip(SubSeq(s, 1, Len(s) - 1))
    ELSE s

\* the separator of column-name words, "_"
Underscore == Codes("_")

\* s.split('_')[0]
FirstSegment(s) ==
    IF Contains(s, Underscore)
    THEN LET i == CHOOSE j \in 1..Len(s) :
                     /\ s[j] = 95
                     /\ \A m \in 1..(j - 1) : s[m] # 95
         IN  SubSeq(s, 1, i - 1)
    ELSE s

\* s.split('_')[-1]
LastSegment(s) ==
    IF Contains(s, Underscore)
    THEN LET i == CHOOSE j \in 1..Len(s) :
                     /\ s[j] = 95
                     /\ \A m \in (j + 1)..Len(s) : s[m] # 95
         IN  SubSeq(s, i + 1, Len(s))
    ELSE s

(***************************************************************************)
(* The static tables of __init__                                           *)
(***************************************************************************)
\* self.column_keywords as written, in the dict's insertion order
column_keywords_literal ==
    << <<"EMAIL", <<"email", "e-mail", "mail", "email_address", "e_mail">> >>,
       <<"PHONE", <<"phone", "telephone", "mobile", "cell", "contact_number",
                    "phone_num", "phone_number">> >>,
       <<"NAME", <<"name", "firstname", "lastname", "first_name", "last_name",
                   "full_name", "username", "patient_name", "customer_name",
                   "employee_name">> >>,
       <<"ID", <<"patient_id", "customer_id", "employee_id", "user_id", "person_id",
                 "id_number", "national_id">> >>,
       <<"DOB", <<"dob", "birth", "birthdate", "date_of_birth", "birthday",
                  "birth_date">> >>,
       <<"ADDRESS", <<"address", "street", "location", "residence", "home_address",
                      "street_address", "physical_address">> >>,
       <<"SSN", <<"ssn", "social_security", "social_security_number">> >>,
       <<"CREDIT_CARD", <<"credit_card", "cc", "card_number", "creditcard",
                          "card_num">> >>,
       <<"GENDER", <<"gender", "sex">> >>,
       <<"AGE", <<"age">> >>,
       <<"SALARY", <<"salary", "income", "wage", "compensation", "pay">> >>,
       <<"MEDICAL", <<"medical_condition", "diagnosis", "medication", "blood_type",
                      "medical", "condition", "disease", "illness">> >> >>

\* self.column_keywords: each entry is (pii_type, the list of its keywords)
column_keywords ==
    [i \in 1..Len(column_keywords_literal) |->
        LET entry == column_keywords_literal[i]
        IN  <<entry[1], [j \in 1..Len(entry[2]) |-> Codes(entry[2][j])]>>]

\* the local list non_pii_keywords of detect_column_name_heuristic
non_pii_keywords_literal ==
    <<"essay", "description", "comment", "notes", "text", "content",
      "body", "message", "post", "article", "paragraph", "statement",
      "summary", "review", "feedback", "provider", "company", "organization",
      "department", "title", "category", "type", "status", "role">>

non_pii_keywords ==
    [i \in 1..Len(non_pii_keywords_literal) |-> Codes(non_pii_keywords_literal[i])]

\* a plausible slip: the table without an entry for NAME, a type only the name
\* heuristic returns
impact_scores_without_name ==
    [t \in {"SSN", "CREDIT_CARD", "NATIONAL_ID", "MEDICAL", "EMAIL", "PHONE",
            "ADDRESS", "GPS_COORDINATES", "IBAN", "DATE_OF_BIRTH", "DOB",
            "SALARY", "ID", "AGE", "GENDER", "IP_ADDRESS", "URL"} |->
        CASE t \in {"SSN", "CREDIT_CARD", "NATIONAL_ID", "MEDICAL"} -> 5
          [] t \in {"EMAIL", "PHONE", "ADDRESS", "GPS_COORDINATES", "IBAN"} -> 4
          [] t \in {"DATE_OF_BIRTH", "DOB", "SALARY"} -> 3
          [] t \in {"ID", "AGE", "GENDER", "IP_ADDRESS"} -> 2
          [] t = "URL" -> 1]

\* self.impact_scores
impact_scores ==
    [t \in {"SSN", "CREDIT_CARD", "NATIONAL_ID", "MEDICAL", "EMAIL", "PHONE",
            "ADDRESS", "GPS_COORDINATES", "IBAN", "DATE_OF_BIRTH", "DOB", "NAME",
            "SALARY", "ID", "AGE", "GENDER", "IP_ADDRESS", "URL"} |->
        CASE t \in {"SSN", "CREDIT_CARD", "NATIONAL_ID", "MEDICAL"} -> 5
          [] t \in {"EMAIL", "PHONE", "ADDRESS", "GPS_COORDINATES", "IBAN"} -> 4
          [] t \in {"DATE_OF_BIRTH", "DOB", "NAME", "SALARY"} -> 3
          [] t \in {"ID", "AGE", "GENDER", "IP_ADDRESS"} -> 2
          [] t = "URL" -> 1]

\* self.impact_scores.get(pii_type, 2)
DefaultImpact == 2

\* a plausible slip: the lookup never finds the key and always gives the default
impact_of_default_only(pii_type) == DefaultImpact

impact_of(pii_type) ==
    IF pii_type \in DOMAIN impact_scores THEN impact_scores[pii_type] ELSE DefaultImpact

(***************************************************************************)
(* detect_column_name_heuristic                                            *)
(***************************************************************************)
HeuristicNone == [type |-> None, conf |-> Zero]

\* the loop that builds sorted_items before the sort: (pii_type, keyword) pairs
RECURSIVE FlattenKeywords(_)
FlattenKeywords(lib) ==
    IF lib = <<>> THEN <<>>
    ELSE [i \in 1..Len(lib[1][2]) |-> [type |-> lib[1][1], keyword |-> lib[1][2][i]]]
         \o FlattenKeywords(Tail(lib))

keyword_items == FlattenKeywords(column_keywords)

MaxKeywordLen ==
    CHOOSE m \in {Len(keyword_items[i].keyword) : i \in 1..Len(keyword_items)} :
        \A i \in 1..Len(keyword_items) : Len(keyword_items[i].keyword) <= m

\* the items whose keyword has length n, in list order, followed by the shorter ones
RECURSIVE SortFromLength(_, _)
SortFromLength(items, n) ==
    IF n = 0 THEN <<>>
    ELSE SelectSeq(items, LAMBDA it : Len(it.keyword) = n) \o SortFromLength(items, n - 1)

\* a plausible slip: the sort is left out and the pairs stay in library order
sorted_items_unsorted == keyword_items

\* sorted_items.sort(key=lambda x: len(x[1]), reverse=True): a stable sort
sorted_items == SortFromLength(keyword_items, MaxKeywordLen)

\* a plausible slip: only the whole-name comparison of the exclusion test
is_excluded_name_exact_only(column_name_lower) ==
    \E i \in 1..Len(non_pii_keywords) : non_pii_keywords[i] = column_name_lower

\* the loop over non_pii_keywords: does some entry exclude the name?
is_excluded_name(column_name_lower) ==
    \E i \in 1..Len(non_pii_keywords) :
        LET keyword == non_pii_keywords[i]
        IN  \/ keyword = column_name_lower
            \/ Contains(column_name_lower, Underscore \o keyword)
            \/ Contains(column_name_lower, keyword \o Underscore)

ConfExact == Frac(9, 10)

ConfToken == Frac(8, 10)

ConfSegment == Frac(7, 10)

\* a plausible slip: the segment test of lines 173-174 placed before the token
\* test of line 171
keyword_confidence_segment_first(keyword, column_name_lower) ==
    IF Contains(column_name_lower, keyword)
    THEN IF keyword = column_name_lower THEN ConfExact
         ELSE IF \/ keyword = LastSegment(column_name_lower)
                 \/ keyword = FirstSegment(column_name_lower) THEN ConfSegment
         ELSE IF \/ Contains(column_name_lower, Underscore \o keyword)
                 \/ Contains(column_name_lower, keyword \o Underscore) THEN ConfToken
         ELSE Zero
    ELSE Zero

\* the body of the loop over sorted_items for one pair: the confidence it returns
\* with, or Zero when the pair does not return
keyword_confidence(keyword, column_name_lower) ==
    IF Contains(column_name_lower, keyword)
    THEN IF keyword = column_name_lower THEN ConfExact
         ELSE IF \/ Contains(column_name_lower, Underscore \o keyword)
                 \/ Contains(column_name_lower, keyword \o Underscore) THEN ConfToken
         ELSE IF \/ keyword = LastSegment(column_name_lower)
                 \/ keyword = FirstSegment(column_name_lower) THEN ConfSegment
         ELSE Zero
    ELSE Zero

\* the loop over sorted_items: the first pair that returns
first_keyword_match(items, column_name_lower) ==
    LET hits == {i \in 1..Len(items) :
                    Gt(keyword_confidence(items[i].keyword, column_name_lower), Zero)}
    IN  IF hits = {} THEN HeuristicNone
        ELSE LET i == CHOOSE j \in hits : \A m \in hits : j <= m
             IN  [type |-> items[i].type,
                  conf |-> keyword_confidence(items[i].keyword, column_name_lower)]

detect_column_name_heuristic(column_name) ==
    LET column_name_lower == Strip(Lower(column_name))
    IN  IF is_excluded_name(column_name_lower) THEN HeuristicNone
        ELSE first_keyword_match(sorted_items, column_name_lower)

(***************************************************************************)
(* detect_pattern_based                                                    *)
(***************************************************************************)
\* the keys of self.pii_patterns, in the dict's insertion order
pii_patterns ==
    <<"EMAIL", "PHONE", "SSN", "CREDIT_CARD", "IP_ADDRESS", "URL", "DATE_OF_BIRTH",
      "NATIONAL_ID", "GPS_COORDINATES", "IBAN", "ADDRESS">>

PatternTypes == {pii_patterns[i] : i \in 1..Len(pii_patterns)}

\* re.search of each regular expression of self.pii_patterns on these texts:
\* the types whose pattern the text contains
SampleHits ==
    ("123-45-6789" :> {"SSN"}) @@
    ("987-65-4321" :> {"SSN"}) @@
    ("4111 1111 1111 1111" :> {"CREDIT_CARD"}) @@
    ("4111111111111111" :> {"PHONE", "CREDIT_CARD"}) @@
    ("555-123-4567" :> {"PHONE"}) @@
    ("a@b.co" :> {"EMAIL"}) @@
    ("AB12CD34" :> {"NATIONAL_ID", "IBAN"}) @@
    ("ABCDEFGH" :> {"NATIONAL_ID"}) @@
    ("10.0.0.1" :> {"IP_ADDRESS"}) @@
    ("12 Main St" :> {"ADDRESS"}) @@
    ("http://a.co" :> {"URL"}) @@
    ("1/2/1990" :> {"DATE_OF_BIRTH"}) @@
    ("1.5, 2.5" :> {"GPS_COORDINATES"}) @@
    ("hello" :> {})

NaN == [missing |-> TRUE, core |-> "", pad |-> 0]

Text(core, pad) == [missing |-> FALSE, core |-> core, pad |-> pad]

\* len(str(v)) of a non-missing cell
str_len(v) == Len(v.core) + v.pad

\* string_data.str.contains(pattern, regex=True, na=False) for one cell
str_contains(v, pii_type) == pii_type \in SampleHits[v.core]

\* column_data.dropna().astype(str)
dropna(values) == SelectSeq(values, LAMBDA v : ~v.missing)

RECURSIVE SumLen(_)
SumLen(string_data) ==
    IF string_data = <<>> THEN 0
    ELSE str_len(Head(string_data)) + SumLen(Tail(string_data))

MaxAvgLength == 500

MaxSampleLength == 200

\* a plausible slip: >= in place of > in the long-text test
avg_length_excluded_ge(string_data) ==
    SumLen(string_data) >= MaxAvgLength * Len(string_data)

\* avg_length = string_data.str.len().mean();  avg_length > 500
avg_length_excluded(string_data) ==
    SumLen(string_data) > MaxAvgLength * Len(string_data)

\* matches / len(string_data)
match_ratio(string_data, pii_type) ==
    Frac(Cardinality({i \in 1..Len(string_data) : str_contains(string_data[i], pii_type)}),
         Len(string_data))

CandidateThreshold == Frac(3, 10)

DetectionThreshold == Frac(1, 2)

\* a plausible slip: the length guard taken over every value instead of the first
pattern_matches_any_long(string_data) ==
    LET accepted == {t \in PatternTypes :
                        /\ Gt(match_ratio(string_data, t), CandidateThreshold)
                        /\ \A i \in 1..Len(string_data) :
                               ~(str_len(string_data[i]) > MaxSampleLength)}
    IN  [t \in accepted |-> match_ratio(string_data, t)]

\* the dict pattern_matches after the loop over self.pii_patterns
pattern_matches(string_data) ==
    LET sample == string_data[1]
        accepted == {t \in PatternTypes :
                        /\ Gt(match_ratio(string_data, t), CandidateThreshold)
                        /\ ~(str_len(sample) > MaxSampleLength)}
    IN  [t \in accepted |-> match_ratio(string_data, t)]

\* a plausible slip: the priority list in the order of the pattern dict
priority_order_dict_order == pii_patterns

\* a plausible slip: a type of the pattern dict left out of the priority list
priority_order_without_national_id ==
    <<"CREDIT_CARD", "SSN", "IBAN", "EMAIL", "PHONE", "IP_ADDRESS",
      "GPS_COORDINATES", "DATE_OF_BIRTH", "ADDRESS", "URL">>

priority_order ==
    <<"CREDIT_CARD", "SSN", "IBAN", "EMAIL", "PHONE", "IP_ADDRESS",
      "GPS_COORDINATES", "DATE_OF_BIRTH", "NATIONAL_ID", "ADDRESS", "URL">>

PatternNone == [type |-> None, conf |-> Zero]

\* max(pattern_matches.items(), key=lambda x: x[1]): the first item, in the dict's
\* insertion order, whose ratio is the largest
best_match(pm) ==
    LET keys == SelectSeq(pii_patterns, LAMBDA t : t \in DOMAIN pm)
        i == CHOOSE j \in 1..Len(keys) :
                 /\ \A m \in 1..Len(keys) : Le(pm[keys[m]], pm[keys[j]])
                 /\ \A m \in 1..(j - 1) : ~EqF(pm[keys[m]], pm[keys[j]])
    IN  [type |-> keys[i], conf |-> pm[keys[i]]]

\* "Find best match with priority handling"
select_match(pm) ==
    IF DOMAIN pm = {} THEN PatternNone
    ELSE LET high == {i \in 1..Len(priority_order) :
                         /\ priority_order[i] \in DOMAIN pm
                         /\ Gt(pm[priority_order[i]], DetectionThreshold)}
         IN  IF high # {}
             THEN LET i == CHOOSE j \in high : \A m \in high : j <= m
                  IN  [type |-> priority_order[i], conf |-> pm[priority_order[i]]]
             ELSE IF Gt(best_match(pm).conf, DetectionThreshold) THEN best_match(pm)
             ELSE PatternNone

TextDTypes == {"object", "string"}

\* a plausible slip: the dtype test of line 77 left out
detect_pattern_based_any_dtype(column_data) ==
    LET string_data == dropna(column_data.values)
    IN  IF Len(string_data) = 0 THEN PatternNone
        ELSE IF avg_length_excluded(string_data) THEN PatternNone
        ELSE select_match(pattern_matches(string_data))

\* column_data is [dtype, values]
detect_pattern_based(column_data) ==
    IF column_data.dtype \notin TextDTypes THEN PatternNone
    ELSE LET string_data == dropna(column_data.values)
         IN  IF Len(string_data) = 0 THEN PatternNone
             ELSE IF avg_length_excluded(string_data) THEN PatternNone
             ELSE select_match(pattern_matches(string_data))

(***************************************************************************)
(* calculate_uniqueness, calculate_risk_score, categorize_risk,            *)
(* recommend_action                                                        *)
(***************************************************************************)
\* column_data.nunique(): the distinct non-missing values
nunique(values) == Cardinality({values[i] : i \in {j \in 1..Len(values) : ~values[j].missing}})

\* column_data.isna().sum()
null_count(values) == Cardinality({i \in 1..Len(values) : values[i].missing})

\* a plausible slip: nunique(dropna=False), a missing value counted as one more
\* distinct value
calculate_uniqueness_with_nan(column_data) ==
    IF Len(column_data.values) = 0 THEN Zero
    ELSE Frac(Cardinality({column_data.values[i] : i \in 1..Len(column_data.values)}),
              Len(column_data.values))

calculate_uniqueness(column_data) ==
    IF Len(column_data.values) = 0 THEN Zero
    ELSE Frac(nunique(column_data.values), Len(column_data.values))

RiskFactor == 20

RiskCap == 100

\* a plausible slip: the cap is left out
calculate_risk_score_uncapped(pii_type, impact, uniqueness) ==
    Product(RiskFactor * impact, uniqueness)

\* min(risk_score, 100) is the int 100 when 100 < risk_score
calculate_risk_score(pii_type, impact, uniqueness) ==
    LET risk_score == Product(RiskFactor * impact, uniqueness)
    IN  IF Gt(risk_score, Frac(RiskCap, 1)) THEN Frac(RiskCap, 1) ELSE risk_score

LowMax == 30

MediumMax == 70

\* a plausible slip: the tier boundaries open on the lower tier's side
categorize_risk_strict(risk_score) ==
    IF ~Le(Frac(LowMax, 1), risk_score) THEN "Low"
    ELSE IF ~Le(Frac(MediumMax, 1), risk_score) THEN "Medium"
    ELSE "High"

categorize_risk(risk_score) ==
    IF Le(risk_score, Frac(LowMax, 1)) THEN "Low"
    ELSE IF Le(risk_score, Frac(MediumMax, 1)) THEN "Medium"
    ELSE "High"

\* the dict recommendations of recommend_action
recommendations ==
    ("SSN" :> "Tokenization or full masking (e.g., ***-**-1234)") @@
    ("CREDIT_CARD" :> "Tokenization or partial masking (e.g., ****-****-****-1234)") @@
    ("NATIONAL_ID" :> "Tokenization or hashing with salt") @@
    ("EMAIL" :> "Hashing or partial masking (e.g., j***@example.com)") @@
    ("PHONE" :> "Masking last 4 digits (e.g., ***-***-1234)") @@
    ("ADDRESS" :> "Generalization to city/region level") @@
    ("GPS_COORDINATES" :> "Reduce precision to neighborhood level") @@
    ("DATE_OF_BIRTH" :> "Generalization to birth year only") @@
    ("DOB" :> "Generalization to birth year only") @@
    ("NAME" :> "Pseudonymization or tokenization") @@
    ("ID" :> "Tokenization or hashing") @@
    ("SALARY" :> "Generalization to salary ranges") @@
    ("MEDICAL" :> "Remove or encrypt; strict access control required") @@
    ("IBAN" :> "Tokenization or partial masking") @@
    ("IP_ADDRESS" :> "Remove last octet (e.g., 192.168.1.***)") @@
    ("URL" :> "Domain extraction only if needed") @@
    ("AGE" :> "Generalization to age ranges (e.g., 20-30)") @@
    ("GENDER" :> "Keep if necessary for analysis; consider aggregation")

GenericRecommendation == "Apply appropriate anonymization technique"

\* the three prefixes; the source spells each with a coloured-circle character
\* (red, yellow, green), written here by its name
HighMarker == "(red circle) URGENT: "

MediumMarker == "(yellow circle) "

LowMarker == "(green circle) "

recommend_action(pii_type, risk_category) ==
    LET base_recommendation ==
            IF pii_type \in DOMAIN recommendations THEN recommendations[pii_type]
            ELSE GenericRecommendation
    IN  IF risk_category = "High" THEN HighMarker \o base_recommendation
        ELSE IF risk_category = "Medium" THEN MediumMarker \o base_recommendation
        ELSE LowMarker \o base_recommendation

(***************************************************************************)
(* analyze_dataset                                                         *)
(***************************************************************************)
\* a plausible slip: >= in place of > (the pattern wins ties)
reconcile_ge(pattern, heuristic) ==
    IF ~Gt(heuristic.conf, pattern.conf)
    THEN [pii_type |-> pattern.type, confidence |-> pattern.conf,
          detection_method |-> "Pattern-Based"]
    ELSE IF Gt(heuristic.conf, Zero)
    THEN [pii_type |-> heuristic.type, confidence |-> heuristic.conf,
          detection_method |-> "Column Name Heuristic"]
    ELSE [pii_type |-> None, confidence |-> Zero, detection_method |-> "None"]

\* "Combine detections (prioritize higher confidence)"
reconcile(pattern, heuristic) ==
    IF Gt(pattern.conf, heuristic.conf)
    THEN [pii_type |-> pattern.type, confidence |-> pattern.conf,
          detection_method |-> "Pattern-Based"]
    ELSE IF Gt(heuristic.conf, Zero)
    THEN [pii_type |-> heuristic.type, confidence |-> heuristic.conf,
          detection_method |-> "Column Name Heuristic"]
    ELSE [pii_type |-> None, confidence |-> Zero, detection_method |-> "None"]

\* the dict appended to results for a column with an adopted type
make_finding(column, sig) ==
    LET uniqueness == calculate_uniqueness(column)
        impact == impact_of(sig.pii_type)
        risk_score == calculate_risk_score(sig.pii_type, impact, uniqueness)
        risk_category == categorize_risk(risk_score)
        recommendation == recommend_action(sig.pii_type, risk_category)
    IN  [ColumnName |-> column.name,
         PIIType |-> sig.pii_type,
         DetectionMethod |-> sig.detection_method,
         Confidence |-> FormatPct2(sig.confidence),
         Impact |-> impact,
         Uniqueness |-> FormatPct2(uniqueness),
         RiskScore |-> FormatFix2(risk_score),
         RiskCategory |-> risk_category,
         RecommendedAction |-> recommendation,
         DataType |-> column.dtype,
         UniqueValues |-> nunique(column.values),
         NullCount |-> null_count(column.values)]

\* a plausible slip: the finding is put in front of the list
add_finding_front(res, column, sig) ==
    IF sig.pii_type # None THEN <<make_finding(column, sig)>> \o res ELSE res

\* "if pii_type: ... results.append({...})"
add_finding(res, column, sig) ==
    IF sig.pii_type # None THEN Append(res, make_finding(column, sig)) ELSE res

(***************************************************************************)
(* Inputs of the bounded check                                             *)
(***************************************************************************)
MaxSegments == 2

MaxRows == 3

MaxTotal == 8

MaxCols == 3

MaxTieRows == 5

NameWords ==
    {Codes(w) : w \in
    {"email", "mail", "name", "full", "employee", "id", "phone", "number", "user",
     "status", "notes", "description", "type", "age", "surname", "ssn", "address",
     "home", "cc", "salary"}}

RECURSIVE JoinedNames(_)
\* the names of exactly n words joined by "_"
JoinedNames(n) ==
    IF n = 1 THEN NameWords
    ELSE {a \o Underscore \o w : a \in JoinedNames(n - 1), w \in NameWords}

\* names with characters beyond printable ASCII: control and Unicode whitespace
\* around a keyword, capitals of other scripts, a capital sigma in and out of
\* final position, and the capitals whose lowercase is an ASCII letter or two
\* characters
OtherNames ==
    {Codes("ssn") \o <<13>>,
     <<13, 10>> \o Codes("full_name") \o <<13, 10>>,
     <<9>> \o Codes("email") \o <<12>>,
     <<209>> \o Codes("ame_ID"),
     <<201>> \o Codes("MAIL"),
     Codes("email") \o <<5760>>,
     <<5760>> \o Codes("ssn"),
     <<8195, 12288>> \o Codes("Phone") \o <<8232, 160, 133>>,
     Codes("ID_") \o <<931>>,
     Codes("ID_") \o <<913>>,
     Codes("ID_") \o <<7838>>,
     Codes("ID_") \o <<9398>>,
     <<913, 931>> \o Codes("_id"),
     <<913, 931, 39, 46>> \o Codes("_") \o <<931, 913, 931, 58, 931>>,
     <<931>> \o Codes("a") \o <<931>> \o Codes(".b") \o <<931, 1024, 66560>>,
     Codes("feedbac") \o <<8490>>,
     Codes("Noteboo") \o <<8490>> \o Codes("_Notes"),
     <<304>> \o Codes("d_number"),
     Codes("user_") \o <<304>> \o Codes("d"),
     Codes("ma") \o <<304>> \o Codes("l"),
     <<385, 4256, 5024>> \o Codes("_SSN"),
     <<96>> \o Codes("age") \o <<96>>,
     Codes("age") \o <<0>>}

ColumnNames ==
    UNION {JoinedNames(n) : n \in 1..MaxSegments}
    \cup {Codes(s) : s \in
             {" Email ", "SSN", "Full_Name", "Status_Notes ", "e-mail", "pay_day_",
              "first_name_last_name", "email_phone_number", "username",
              "category"}}
    \cup OtherNames

RECURSIVE SeqsUpTo(_, _)
\* the sequences over S of length at most n
SeqsUpTo(S, n) ==
    IF n = 0 THEN {<<>>}
    ELSE LET shorter == SeqsUpTo(S, n - 1)
         IN  shorter \cup {Append(q, x) : q \in {r \in shorter : Len(r) = n - 1}, x \in S}

SsnCore == "123-45-6789"

\* cells for the pattern detector: short texts of several kinds, the same text
\* padded to 201, 500, 501 and 989 characters, and the missing value
PatternCells ==
    {Text(SsnCore, 0), Text("987-65-4321", 0), Text("4111111111111111", 0),
     Text("a@b.co", 0), Text("AB12CD34", 0), Text("ABCDEFGH", 0), Text("hello", 0),
     Text(SsnCore, MaxSampleLength + 1 - Len(SsnCore)),
     Text(SsnCore, MaxAvgLength - Len(SsnCore)),
     Text(SsnCore, MaxAvgLength + 1 - Len(SsnCore)),
     Text(SsnCore, 2 * MaxAvgLength - 2 * Len(SsnCore)),
     NaN}

DTypes == {"object", "string", "float64"}

PatternColumns == [dtype : DTypes, values : SeqsUpTo(PatternCells, MaxRows)]

\* impacts given to calculate_risk_score directly: the table's 1..5 and beyond
MaxImpactArg == 6

\* uniqueness as calculate_uniqueness can return it: distinct / total
Uniquenesses == UNION {{Frac(u, t) : u \in 0..t} : t \in 1..MaxTotal}

RiskArgs == [pii_type : {"SSN"}, impact : 1..MaxImpactArg, uniqueness : Uniquenesses]

\* scores given to categorize_risk directly: 0.00, 0.01, ..., 100.00
ScoreArgs == {Frac(c, 100) : c \in 0..(100 * RiskCap)}

\* types with no entry in impact_scores and none in recommendations
UnmappedTypes == {"PASSPORT", "BIOMETRIC"}

\* arguments given to recommend_action directly
RecommendArgs ==
    [pii_type : DOMAIN impact_scores \cup UnmappedTypes,
     risk_category : {"High", "Medium", "Low"}]

\* x repeated n times
Rep(x, n) == [i \in 1..n |-> x]

DataCells == {Text(SsnCore, 0), Text("987-65-4321", 0), Text("a@b.co", 0),
              Text("hello", 0), NaN}

\* a rows of one cell followed by b rows of another: every match ratio a / (a + b)
TwoRunSeries ==
    {Rep(x, a) \o Rep(y, b) :
        x \in {Text(SsnCore, 0), Text("a@b.co", 0)}, y \in {Text("hello", 0), NaN},
        a \in 0..MaxTieRows, b \in 0..MaxTieRows}

\* columns of SSN texts with a long text in the first or in the second row
LongSeries ==
    {<<Text(SsnCore, MaxSampleLength + 1 - Len(SsnCore))>>,
     <<Text(SsnCore, MaxSampleLength + 1 - Len(SsnCore)), Text(SsnCore, 0)>>,
     <<Text(SsnCore, 0), Text(SsnCore, MaxAvgLength + 1 - Len(SsnCore))>>,
     <<Text(SsnCore, 0), Text(SsnCore, 2 * MaxAvgLength - Len(SsnCore))>>,
     <<Text(SsnCore, 0), Text(SsnCore, 2 * MaxAvgLength + 1 - Len(SsnCore))>>}

DataSeries ==
    SeqsUpTo(DataCells, MaxRows) \cup {v \in TwoRunSeries : Len(v) <= MaxTieRows}
    \cup LongSeries

DataNames ==
    {Codes(s) : s \in {"ssn", "user_email", "full_name", "category", "notes", "age",
                       "employee_id", "misc"}}

WideColumns == [name : DataNames, dtype : {"object", "float64"}, values : DataSeries]

NarrowColumns ==
    [name : {Codes(s) : s \in {"ssn", "user_email", "full_name", "category"}},
     dtype : {"object"},
     values : {<<Text(SsnCore, 0)>>, <<Text("hello", 0), Text("hello", 0)>>,
               Rep(Text("a@b.co", 0), 4) \o <<Text("hello", 0)>>, <<>>}]

\* a DataFrame's column labels are distinct (df[column] is then one Series)
DistinctNames(d) == \A i, j \in 1..Len(d) : i # j => d[i].name # d[j].name

\* the DataFrames given to analyze_dataset: every one-column frame over the wide
\* set of columns, and the frames of up to MaxCols columns over the narrow set
DataFrames ==
    {<<c>> : c \in WideColumns}
    \cup {d \in SeqsUpTo(NarrowColumns, MaxCols) : DistinctNames(d)}

(***************************************************************************)
(* The state machine: a method is called on an input and returns           *)
(***************************************************************************)
NoSignal == [pii_type |-> None, confidence |-> Zero, detection_method |-> "None"]

NoLoop ==
    /\ df = <<>>
    /\ idx = 0
    /\ results = <<>>
    /\ pattern_sig = PatternNone
    /\ heuristic_sig = HeuristicNone
    /\ adopted = NoSignal

LoopVars == <<df, idx, results, pattern_sig, heuristic_sig, adopted>>

\* a call of `method` on input x that has not returned yet
Called(method, x) == call = method /\ arg = x /\ ret = <<>>

Pending(method) == call = method /\ ret = <<>>

InitHeuristic ==
    /\ \E x \in ColumnNames : Called("detect_column_name_heuristic", x)
    /\ NoLoop

InitPattern ==
    /\ \E x \in PatternColumns : Called("detect_pattern_based", x)
    /\ NoLoop

InitRisk ==
    /\ \/ \E x \in RiskArgs : Called("calculate_risk_score", x)
       \/ \E x \in ScoreArgs : Called("categorize_risk", x)
    /\ NoLoop

InitUniqueness ==
    /\ \E x \in PatternColumns : Called("calculate_uniqueness", x)
    /\ NoLoop

InitRecommend ==
    /\ \E x \in RecommendArgs : Called("recommend_action", x)
    /\ NoLoop

InitAnalyze ==
    /\ Called("analyze_dataset", None)
    /\ df \in DataFrames
    /\ idx = 0
    /\ results = <<>>
    /\ pattern_sig = PatternNone
    /\ heuristic_sig = HeuristicNone
    /\ adopted = NoSignal

ReturnHeuristic ==
    /\ Pending("detect_column_name_heuristic")
    /\ ret' = <<detect_column_name_heuristic(arg)>>
    /\ UNCHANGED <<call, arg, LoopVars>>

ReturnPattern ==
    /\ Pending("detect_pattern_based")
    /\ ret' = <<detect_pattern_based(arg)>>
    /\ UNCHANGED <<call, arg, LoopVars>>

ReturnRiskScore ==
    /\ Pending("calculate_risk_score")
    /\ ret' = <<calculate_risk_score(arg.pii_type, arg.impact, arg.uniqueness)>>
    /\ UNCHANGED <<call, arg, LoopVars>>

ReturnCategory ==
    /\ Pending("categorize_risk")
    /\ ret' = <<categorize_risk(arg)>>
    /\ UNCHANGED <<call, arg, LoopVars>>

ReturnUniqueness ==
    /\ Pending("calculate_uniqueness")
    /\ ret' = <<calculate_uniqueness(arg)>>
    /\ UNCHANGED <<call, arg, LoopVars>>

ReturnRecommendation ==
    /\ Pending("recommend_action")
    /\ ret' = <<recommend_action(arg.pii_type, arg.risk_category)>>
    /\ UNCHANGED <<call, arg, LoopVars>>

\* one iteration of "for column in df.columns"
AnalyzeColumn ==
    /\ Pending("analyze_dataset")
    /\ idx < Len(df)
    /\ LET column == df[idx + 1]
           pattern == detect_pattern_based(column)
           heuristic == detect_column_name_heuristic(column.name)
           sig == reconcile(pattern, heuristic)
       IN  /\ pattern_sig' = pattern
           /\ heuristic_sig' = heuristic
           /\ adopted' = sig
           /\ results' = add_finding(results, column, sig)
    /\ idx' = idx + 1
    /\ UNCHANGED <<call, arg, ret, df>>

\* "return pd.DataFrame(results)" once the loop is over
ReturnResults ==
    /\ Pending("analyze_dataset")
    /\ idx = Len(df)
    /\ ret' = <<results>>
    /\ UNCHANGED <<call, arg, LoopVars>>

NextHeuristic == ReturnHeuristic

NextPattern == ReturnPattern

NextRisk == ReturnRiskScore \/ ReturnCategory

NextUniqueness == ReturnUniqueness

NextLookup ==
    \/ ReturnRecommendation
    \/ ReturnHeuristic
    \/ ReturnPattern
    \/ AnalyzeColumn
    \/ ReturnResults

Next == AnalyzeColumn \/ ReturnResults

\* analyze_dataset on a DataFrame
Spec == InitAnalyze /\ [][Next]_vars

\* detect_column_name_heuristic on a column name
SpecHeuristic == InitHeuristic /\ [][NextHeuristic]_vars

\* detect_pattern_based on a column
SpecPattern == InitPattern /\ [][NextPattern]_vars

\* calculate_risk_score and categorize_risk on their arguments
SpecRisk == InitRisk /\ [][NextRisk]_vars

\* calculate_uniqueness on a column
SpecUniqueness == InitUniqueness /\ [][NextUniqueness]_vars

TypeOK ==
    /\ call \in {"detect_column_name_heuristic", "detect_pattern_based",
                 "calculate_risk_score", "categorize_risk", "analyze_dataset",
                 "calculate_uniqueness", "recommend_action"}
    /\ Len(ret) \in {0, 1}
    /\ idx \in 0..Len(df)
    /\ Len(results) <= idx

\* calculate_risk_score, categorize_risk and analyze_dataset together
SpecScoring == (InitRisk \/ InitAnalyze) /\ [][NextRisk \/ Next]_vars

\* the lookups of impact and recommendation: the two detectors, analyze_dataset
\* and recommend_action together
SpecLookup ==
    (InitRecommend \/ InitHeuristic \/ InitPattern \/ InitAnalyze) /\ [][NextLookup]_vars

(***************************************************************************)
(* Properties                                                              *)
(***************************************************************************)
Returned(method) == call = method /\ Len(ret) = 1

\* the loop of analyze_dataset has processed at least one column
InLoop == call = "analyze_dataset" /\ idx > 0

LastFinding == results[Len(results)]

\* C1: after each column, with p the pattern confidence and h the heuristic
\* confidence: the method is Pattern-Based (and the pattern's type and confidence
\* are adopted) exactly when p > h; it is Column Name Heuristic (the heuristic's
\* type and confidence adopted) exactly when not p > h and h > 0; it is "None"
\* (no type, the column unflagged) exactly when p = 0 and h = 0; and a flagged
\* column's finding carries the adopted type and method.
C1_Reconciliation ==
    InLoop =>
        LET p == pattern_sig.conf
            h == heuristic_sig.conf
        IN  /\ (adopted.detection_method = "Pattern-Based") <=> (p.n * h.d > h.n * p.d)
            /\ (adopted.detection_method = "Column Name Heuristic")
                   <=> (~(p.n * h.d > h.n * p.d) /\ h.n > 0)
            /\ (adopted.detection_method = "None") <=> (p.n = 0 /\ h.n = 0)
            /\ adopted.detection_method
                   \in {"Pattern-Based", "Column Name Heuristic", "None"}
            /\ adopted.detection_method = "Pattern-Based"
                   => adopted.pii_type = pattern_sig.type /\ adopted.confidence = p
            /\ adopted.detection_method = "Column Name Heuristic"
                   => adopted.pii_type = heuristic_sig.type /\ adopted.confidence = h
            /\ (adopted.detection_method = "None") <=> (adopted.pii_type = None)
            /\ adopted.pii_type # None
                   => /\ Len(results) > 0
                      /\ LastFinding.ColumnName = df[idx].name
                      /\ LastFinding.PIIType = adopted.pii_type
                      /\ LastFinding.DetectionMethod = adopted.detection_method

\* both signals positive and of different types, the pattern's strictly higher
C1_Witness ==
    /\ InLoop
    /\ Gt(pattern_sig.conf, heuristic_sig.conf)
    /\ Gt(heuristic_sig.conf, Zero)
    /\ pattern_sig.type # heuristic_sig.type
    /\ adopted.detection_method = "Pattern-Based"

Tie == InLoop /\ EqF(pattern_sig.conf, heuristic_sig.conf) /\ Gt(pattern_sig.conf, Zero)

\* C2 as stated: when the two confidences are equal and positive the heuristic
\* result is dropped (the column is not reported by Column Name Heuristic).
C2_HeuristicLosesTie ==
    Tie => /\ adopted.detection_method # "Column Name Heuristic"
           /\ LastFinding.DetectionMethod # "Column Name Heuristic"

\* C2 amended: when the two confidences are equal and positive the pattern result
\* is dropped: the column is reported with the heuristic's type and confidence
\* and method Column Name Heuristic.
C2_PatternLosesTie ==
    Tie => /\ adopted.detection_method = "Column Name Heuristic"
           /\ adopted.pii_type = heuristic_sig.type
           /\ Len(results) > 0
           /\ LastFinding.ColumnName = df[idx].name
           /\ LastFinding.PIIType = heuristic_sig.type
           /\ LastFinding.DetectionMethod = "Column Name Heuristic"
           /\ LastFinding.Confidence = FormatPct2(heuristic_sig.conf)

\* a tie at 0.8 between two different types
C2_Witness ==
    /\ Tie
    /\ EqF(pattern_sig.conf, Frac(8, 10))
    /\ pattern_sig.type # heuristic_sig.type
    /\ LastFinding.PIIType = heuristic_sig.type

\* reconciliation adopts a type for the column
Flagged(column) ==
    LET p == detect_pattern_based(column).conf
        h == detect_column_name_heuristic(column.name).conf
    IN  Gt(p, h) \/ Gt(h, Zero)

FlaggedPrefix(k) == SelectSeq(SubSeq(df, 1, k), Flagged)

C3_State ==
    call = "analyze_dataset" =>
        /\ Len(results) = Len(FlaggedPrefix(idx))
        /\ \A i \in 1..Len(results) : results[i].ColumnName = FlaggedPrefix(idx)[i].name
        /\ Len(ret) = 1 => ret[1] = results /\ idx = Len(df)

C3_Step ==
    /\ Len(results') >= Len(results)
    /\ SubSeq(results', 1, Len(results)) = results

\* C3: after k columns the result holds exactly one finding for each flagged
\* column among the first k, in column order, and none for an unflagged column;
\* a step never changes or removes a finding already appended; the value
\* returned is that list after the last column.
C3_FindingsFollowColumns == [] C3_State /\ [][C3_Step]_vars

\* three columns processed, the middle one unflagged, the other two reported
C3_Witness ==
    /\ call = "analyze_dataset"
    /\ idx = 3
    /\ Flagged(df[1]) /\ ~Flagged(df[2]) /\ Flagged(df[3])
    /\ Len(results) = 2
    /\ Len(ret) = 1

\* C4: for every impact (1..5, and larger ones) and uniqueness distinct/total in
\* [0,1] the score is min(20 * impact * uniqueness, 100), lies in 0..100, and
\* is 0 when the uniqueness is 0.
C4_RiskScore ==
    Returned("calculate_risk_score") =>
        LET i == arg.impact
            u == arg.uniqueness
            s == ret[1]
        IN  /\ 20 * i * u.n <= 100 * u.d => s.n * u.d = 20 * i * u.n * s.d
            /\ 20 * i * u.n > 100 * u.d => s.n = 100 * s.d
            /\ s.d > 0 /\ 0 <= s.n /\ s.n <= 100 * s.d
            /\ u.n = 0 => s.n = 0

\* the largest product, exactly 100
C4_Witness ==
    /\ Returned("calculate_risk_score")
    /\ arg.impact = 5
    /\ arg.uniqueness.n = arg.uniqueness.d
    /\ EqF(ret[1], Frac(100, 1))

\* the tier of a score num / den, with the boundaries written out
TierOf(num, den) ==
    IF num <= 30 * den THEN "Low"
    ELSE IF num <= 70 * den THEN "Medium"
    ELSE "High"

RowsOf(name) == Len(df[CHOOSE i \in 1..Len(df) : df[i].name = name].values)

\* C5: categorize_risk gives Low for score <= 30, Medium for 30 < score <= 70
\* and High for score > 70 (30.00 is Low, 70.00 is Medium, 70.01 is High), and
\* the category of each finding is that tier of the finding's score
\* 20 * impact * distinct / rows (0 for a column without rows).
C5_Categories ==
    /\ Returned("categorize_risk") =>
           /\ ret[1] = TierOf(arg.n, arg.d)
           /\ arg = Frac(3000, 100) => ret[1] = "Low"
           /\ arg = Frac(7000, 100) => ret[1] = "Medium"
           /\ arg = Frac(7001, 100) => ret[1] = "High"
    /\ call = "analyze_dataset" =>
           \A i \in 1..Len(results) :
               LET f == results[i]
                   rows == RowsOf(f.ColumnName)
               IN  f.RiskCategory =
                       IF rows = 0 THEN "Low"
                       ELSE TierOf(20 * f.Impact * f.UniqueValues, rows)

\* a finding whose score is exactly 30 is Low
C5_Witness ==
    /\ call = "analyze_dataset"
    /\ \E i \in 1..Len(results) :
           /\ 20 * results[i].Impact * results[i].UniqueValues
                  = 30 * RowsOf(results[i].ColumnName)
           /\ results[i].RiskScore = 3000
           /\ results[i].RiskCategory = "Low"

\* a call of detect_pattern_based on a textual column with a non-missing value
\* whose mean text length is at most 500: none of the three early returns is taken
PastEarlyExits ==
    /\ Returned("detect_pattern_based")
    /\ arg.dtype \in {"object", "string"}
    /\ Len(dropna(arg.values)) > 0
    /\ SumLen(dropna(arg.values)) <= 500 * Len(dropna(arg.values))

\* the ratio recorded for a type in pattern_matches exceeds 0.5
Above(t) ==
    LET pm == pattern_matches(dropna(arg.values))
    IN  t \in DOMAIN pm /\ 2 * pm[t].n > pm[t].d

FixedOrder ==
    <<"CREDIT_CARD", "SSN", "IBAN", "EMAIL", "PHONE", "IP_ADDRESS",
      "GPS_COORDINATES", "DATE_OF_BIRTH", "NATIONAL_ID", "ADDRESS", "URL">>

\* C6: for a textual column past the early exits, the detector returns the first
\* type of the order CREDIT_CARD, SSN, IBAN, EMAIL, PHONE, IP_ADDRESS,
\* GPS_COORDINATES, DATE_OF_BIRTH, NATIONAL_ID, ADDRESS, URL whose recorded match
\* ratio exceeds 0.5, with that ratio as the confidence, whatever the ratios of
\* the later types are; a ratio of exactly 0.5 does not qualify.
C6_PriorityOrder ==
    PastEarlyExits =>
        /\ \A i \in 1..Len(FixedOrder) :
               (Above(FixedOrder[i]) /\ \A j \in 1..(i - 1) : ~Above(FixedOrder[j]))
                   => /\ ret[1].type = FixedOrder[i]
                      /\ ret[1].conf = match_ratio(dropna(arg.values), FixedOrder[i])
        /\ (\A i \in 1..Len(FixedOrder) : ~Above(FixedOrder[i]))
               => ret[1] = [type |-> None, conf |-> Zero]

\* IBAN at 2/3 is returned although NATIONAL_ID, later in the order, is at 3/3
C6_Witness ==
    /\ PastEarlyExits
    /\ ret[1].type = "IBAN"
    /\ EqF(ret[1].conf, Frac(2, 3))
    /\ EqF(match_ratio(dropna(arg.values), "NATIONAL_ID"), Frac(1, 1))

\* a mean of exactly 500 with a short first value: the SSN column is detected
C7_WitnessAtLimit ==
    /\ Returned("detect_pattern_based")
    /\ Len(dropna(arg.values)) > 0
    /\ SumLen(dropna(arg.values)) = 500 * Len(dropna(arg.values))
    /\ ret[1].type = "SSN"

\* C7: a column whose non-missing values have a mean text length above 500 gets
\* no detection, whatever its match ratios; a mean of exactly 500 is not excluded
\* (the column is then decided by its recorded ratios).
C7_LongTextExcluded ==
    Returned("detect_pattern_based") =>
        LET string_data == dropna(arg.values)
        IN  /\ (Len(string_data) > 0 /\ SumLen(string_data) > 500 * Len(string_data))
                => ret[1] = [type |-> None, conf |-> Zero]
            /\ (/\ arg.dtype \in {"object", "string"}
                /\ Len(string_data) > 0
                /\ SumLen(string_data) = 500 * Len(string_data)
                /\ str_len(string_data[1]) <= 200
                /\ \A i \in 1..Len(string_data) :
                       /\ str_contains(string_data[i], "SSN")
                       /\ ~str_contains(string_data[i], "CREDIT_CARD"))
                => ret[1] = [type |-> "SSN", conf |-> Frac(Len(string_data), Len(string_data))]

\* every value matches SSN and the first is short, yet the mean of 663 excludes it
C7_Witness ==
    /\ Returned("detect_pattern_based")
    /\ arg.dtype = "object"
    /\ Len(arg.values) = 3
    /\ \A i \in 1..3 : ~arg.values[i].missing /\ str_contains(arg.values[i], "SSN")
    /\ str_len(arg.values[1]) <= 200
    /\ SumLen(arg.values) > 500 * 3
    /\ ret[1].type = None

\* the names the claims speak of
DescriptionName == Codes("description")

StatusNotesName == Codes("status_notes")

EmployeeIdName == Codes("employee_id")

EmailPhoneNumberName == Codes("email_phone_number")

FullNameName == Codes("full_name")

SsnName == Codes("ssn")

MiscName == Codes("misc")

UserEmailName == Codes("user_email")

EmailKeyword == Codes("email")

PhoneNumberKeyword == Codes("phone_number")

\* the exclusion test on a normalized name, written out
ExcludedBy(k, name) ==
    k = name \/ Contains(name, Underscore \o k) \/ Contains(name, k \o Underscore)

ExclusionEntries ==
    {Codes(k) : k \in
        {"essay", "description", "comment", "notes", "text", "content",
         "body", "message", "post", "article", "paragraph", "statement",
         "summary", "review", "feedback", "provider", "company",
         "organization", "department", "title", "category", "type", "status",
         "role"}}

ExcludedName(name) == \E k \in ExclusionEntries : ExcludedBy(k, name)

\* the tier rule for one keyword on a normalized name, written out
TierMatch(k, name) ==
    k = name \/ Contains(name, Underscore \o k) \/ Contains(name, k \o Underscore)

KeywordsOf(t) ==
    LET i == CHOOSE j \in 1..Len(column_keywords) : column_keywords[j][1] = t
    IN  {column_keywords[i][2][m] : m \in 1..Len(column_keywords[i][2])}

KeywordTypes == {column_keywords[i][1] : i \in 1..Len(column_keywords)}

AllKeywords == UNION {KeywordsOf(t) : t \in KeywordTypes}

\* C8: a name whose lower-cased, trimmed form equals an exclusion entry k or
\* contains "_k" or "k_" gets no detection, also when a keyword matches it;
\* "description" and "status_notes" get none.
C8_ExclusionPrecedence ==
    Returned("detect_column_name_heuristic") =>
        /\ ExcludedName(Strip(Lower(arg))) => ret[1] = [type |-> None, conf |-> Zero]
        /\ arg \in {DescriptionName, StatusNotesName} => ret[1].type = None

\* an excluded name that a keyword matches as a token
C8_Witness ==
    /\ Returned("detect_column_name_heuristic")
    /\ ExcludedName(Strip(Lower(arg)))
    /\ \E k \in AllKeywords : TierMatch(k, Strip(Lower(arg)))
    /\ ret[1].type = None

\* C9: for a name that is not excluded the result is the type of a keyword that
\* matches the name (as the whole name or as a delimited token) and is of
\* maximal length among the keywords that match it, with confidence 0.9 when it
\* is the whole name and 0.8 when it is a delimited token; it is no detection
\* with confidence 0 when no keyword matches; "employee_id" gives ID from the
\* keyword "employee_id".
C9_LongestKeywordFirst ==
    Returned("detect_column_name_heuristic") =>
        LET name == Strip(Lower(arg))
            matching == {k \in AllKeywords : TierMatch(k, name)}
        IN  /\ (~ExcludedName(name) /\ matching = {})
                => ret[1] = [type |-> None, conf |-> Zero]
            /\ (~ExcludedName(name) /\ matching # {})
                => \E k \in matching :
                       /\ \A k2 \in matching : Len(k2) <= Len(k)
                       /\ k \in KeywordsOf(ret[1].type)
                       /\ ret[1].conf = IF k = name THEN Frac(9, 10) ELSE Frac(8, 10)
            /\ arg = EmployeeIdName => ret[1] = [type |-> "ID", conf |-> Frac(9, 10)]

\* keywords of two types and of different lengths match; the longer one decides
C9_Witness ==
    /\ Returned("detect_column_name_heuristic")
    /\ arg = EmailPhoneNumberName
    /\ TierMatch(EmailKeyword, arg) /\ TierMatch(PhoneNumberKeyword, arg)
    /\ ret[1] = [type |-> "PHONE", conf |-> Frac(8, 10)]

\* the loop has just processed a column named "full_name" whose values match no
\* pattern
FullNameCase ==
    /\ InLoop
    /\ df[idx].name = FullNameName
    /\ \A t \in PatternTypes : match_ratio(dropna(df[idx].values), t).n = 0

\* C10 as stated: "full_name" is matched on the keyword "name" as a token with
\* confidence 0.8 and reported as NAME by Column Name Heuristic with confidence
\* 0.8 and impact 3.
C10_FullNameToken ==
    FullNameCase =>
        /\ heuristic_sig = [type |-> "NAME", conf |-> Frac(8, 10)]
        /\ LastFinding.ColumnName = FullNameName
        /\ LastFinding.PIIType = "NAME"
        /\ LastFinding.DetectionMethod = "Column Name Heuristic"
        /\ LastFinding.Confidence = 8000
        /\ LastFinding.Impact = 3

\* C10 amended: "full_name" is matched on the keyword "full_name" as the whole
\* name with confidence 0.9 and reported as NAME by Column Name Heuristic with
\* confidence 0.9 (90.00%) and impact 3.
C10_FullNameExact ==
    FullNameCase =>
        /\ pattern_sig = [type |-> None, conf |-> Zero]
        /\ heuristic_sig = [type |-> "NAME", conf |-> Frac(9, 10)]
        /\ Len(results) > 0
        /\ LastFinding.ColumnName = FullNameName
        /\ LastFinding.PIIType = "NAME"
        /\ LastFinding.DetectionMethod = "Column Name Heuristic"
        /\ LastFinding.Confidence = 9000
        /\ LastFinding.Impact = 3

\* free-text values in a textual column named "full_name"
C10_Witness ==
    /\ FullNameCase
    /\ df[idx].dtype = "object"
    /\ Len(dropna(df[idx].values)) > 0
    /\ LastFinding.ColumnName = FullNameName
    /\ LastFinding.Confidence = 9000

\* the loop has just processed a textual column named "ssn" with at least one
\* row, no missing value, all values distinct, and every value containing the
\* SSN pattern and not the CREDIT_CARD pattern
SsnCase ==
    /\ InLoop
    /\ df[idx].name = SsnName
    /\ df[idx].dtype \in {"object", "string"}
    /\ Len(df[idx].values) > 0
    /\ \A i \in 1..Len(df[idx].values) :
           /\ ~df[idx].values[i].missing
           /\ str_contains(df[idx].values[i], "SSN")
           /\ ~str_contains(df[idx].values[i], "CREDIT_CARD")
    /\ \A i, j \in 1..Len(df[idx].values) :
           i # j => df[idx].values[i] # df[idx].values[j]

\* the values of the column pass the two length guards of detect_pattern_based:
\* their mean length is at most 500 (line 91) and the first of them is at most
\* 200 characters long (line 107)
WithinLengthGuards ==
    /\ SumLen(df[idx].values) <= 500 * Len(df[idx].values)
    /\ str_len(df[idx].values[1]) <= 200

\* the column has exactly one finding, the last one, with these fields and with
\* type SSN, impact 5, uniqueness 100%, risk score 100.00, category High, and a
\* recommendation that is the high-urgency marker followed by a text containing
\* "Tokenization or full masking"
SsnFinding(method, confidence) ==
    /\ Cardinality({i \in 1..Len(results) : results[i].ColumnName = SsnName}) = 1
    /\ LastFinding.ColumnName = SsnName
    /\ LastFinding.PIIType = "SSN"
    /\ LastFinding.DetectionMethod = method
    /\ LastFinding.Confidence = confidence
    /\ LastFinding.Impact = 5
    /\ LastFinding.Uniqueness = 10000
    /\ LastFinding.RiskScore = 10000
    /\ LastFinding.RiskCategory = "High"
    /\ SubSeq(LastFinding.RecommendedAction, 1, Len("(red circle) URGENT: "))
           = "(red circle) URGENT: "
    /\ Contains(LastFinding.RecommendedAction, "Tokenization or full masking")

\* C11 as stated: such a column yields exactly one finding: type SSN, method
\* Pattern-Based (pattern confidence 1.0 above the heuristic's 0.9 for the name
\* "ssn"), impact 5, uniqueness 100%, risk score 100.00, category High, and a
\* recommendation with "Tokenization or full masking" and the high-urgency marker.
C11_SsnColumnAnyLength ==
    SsnCase =>
        /\ pattern_sig.type = "SSN" /\ EqF(pattern_sig.conf, Frac(1, 1))
        /\ heuristic_sig = [type |-> "SSN", conf |-> Frac(9, 10)]
        /\ SsnFinding("Pattern-Based", 10000)

\* C11 amended: such a column whose values have a mean length of at most 500 and
\* whose first value is at most 200 characters long yields exactly one finding:
\* type SSN, method Pattern-Based (pattern confidence 1.0 above the heuristic's
\* 0.9), impact 5, uniqueness 100%, risk score 100.00, category High, and a
\* recommendation with "Tokenization or full masking" and the high-urgency
\* marker.  With a longer first value or a larger mean length the pattern
\* detector returns no detection and the one finding, otherwise the same, has
\* method Column Name Heuristic and confidence 90%.
C11_SsnColumnWithinGuards ==
    /\ (SsnCase /\ WithinLengthGuards) =>
           /\ pattern_sig.type = "SSN" /\ EqF(pattern_sig.conf, Frac(1, 1))
           /\ heuristic_sig = [type |-> "SSN", conf |-> Frac(9, 10)]
           /\ SsnFinding("Pattern-Based", 10000)
    /\ (SsnCase /\ ~WithinLengthGuards) =>
           /\ pattern_sig = [type |-> None, conf |-> Zero]
           /\ heuristic_sig = [type |-> "SSN", conf |-> Frac(9, 10)]
           /\ SsnFinding("Column Name Heuristic", 9000)

\* two distinct SSN values, the second of them longer than 200 characters:
\* within the guards and reported by the pattern
C11_Witness ==
    /\ SsnCase
    /\ WithinLengthGuards
    /\ Len(df[idx].values) = 2
    /\ str_len(df[idx].values[2]) > 200
    /\ LastFinding.DetectionMethod = "Pattern-Based"
    /\ LastFinding.RiskScore = 10000

\* a first value of 201 characters: reported through the name
C11_WitnessLongFirst ==
    /\ SsnCase
    /\ str_len(df[idx].values[1]) = 201
    /\ LastFinding.DetectionMethod = "Column Name Heuristic"

\* a short first value and a mean length above 500: reported through the name
C11_WitnessLongMean ==
    /\ SsnCase
    /\ str_len(df[idx].values[1]) <= 200
    /\ SumLen(df[idx].values) > 500 * Len(df[idx].values)
    /\ LastFinding.DetectionMethod = "Column Name Heuristic"

\* the rows of the column calculate_uniqueness was called on
Rows == 1..Len(arg.values)

\* C12 as stated: calculate_uniqueness returns the number of distinct values,
\* a missing value counting as one more distinct value, divided by the number of
\* rows (0 for an empty column)
C12_MissingInNumerator ==
    Returned("calculate_uniqueness") =>
        IF Len(arg.values) = 0 THEN ret[1].n = 0
        ELSE EqF(ret[1], Frac(Cardinality({arg.values[i] : i \in Rows}),
                              Len(arg.values)))

\* C12: calculate_uniqueness returns the number of distinct non-missing values
\* divided by the number of rows, missing rows included in the denominator only;
\* the result lies in [0,1] and is 0 for an empty column.
C12_MissingInDenominatorOnly ==
    Returned("calculate_uniqueness") =>
        /\ Le(Zero, ret[1]) /\ Le(ret[1], Frac(1, 1))
        /\ IF Len(arg.values) = 0 THEN ret[1].n = 0
           ELSE EqF(ret[1],
                    Frac(Cardinality({arg.values[i] : i \in {j \in Rows : ~arg.values[j].missing}}),
                         Len(arg.values)))

\* one text and one missing value: 1/2, not 2/2
C12_Witness ==
    /\ Returned("calculate_uniqueness")
    /\ Len(arg.values) = 2
    /\ ~arg.values[1].missing
    /\ arg.values[2].missing
    /\ EqF(ret[1], Frac(1, 2))

\* the non-missing values of the column detect_pattern_based was called on
NonMissing == dropna(arg.values)

\* the number of non-missing values that pattern t matches
Hits(t) == Cardinality({i \in 1..Len(NonMissing) : str_contains(NonMissing[i], t)})

\* pattern t matches more than half of the non-missing values
Majority(t) == 2 * Hits(t) > Len(NonMissing)

\* C13: a pattern is a candidate exactly when it matches more than 0.3 of the
\* non-missing values and the first non-missing value has at most 200
\* characters; a column whose first non-missing value is longer than 200
\* characters gets no detection whatever the other values are; with a first
\* value of at most 200 characters (and a mean length of at most 500) the answer
\* is the first type of the priority order that matches more than half of the
\* values, or none, whatever the lengths of the values in the other positions.
C13_FirstValueGuard ==
    (Returned("detect_pattern_based") /\ Len(NonMissing) > 0) =>
        /\ str_len(NonMissing[1]) > 200 => ret[1] = [type |-> None, conf |-> Zero]
        /\ PastEarlyExits =>
               /\ DOMAIN pattern_matches(NonMissing)
                      = {t \in PatternTypes : /\ 10 * Hits(t) > 3 * Len(NonMissing)
                                              /\ str_len(NonMissing[1]) <= 200}
               /\ str_len(NonMissing[1]) <= 200 =>
                      /\ \A i \in 1..Len(FixedOrder) :
                             (Majority(FixedOrder[i])
                              /\ \A j \in 1..(i - 1) : ~Majority(FixedOrder[j]))
                                 => /\ ret[1].type = FixedOrder[i]
                                    /\ EqF(ret[1].conf,
                                           Frac(Hits(FixedOrder[i]), Len(NonMissing)))
                      /\ (\A i \in 1..Len(FixedOrder) : ~Majority(FixedOrder[i]))
                             => ret[1] = [type |-> None, conf |-> Zero]

\* a first value of 201 characters followed by short values, every value an SSN
\* text and the mean length below 500: no detection
C13_Witness ==
    /\ PastEarlyExits
    /\ Len(NonMissing) >= 2
    /\ str_len(NonMissing[1]) = 201
    /\ \A i \in 2..Len(NonMissing) : str_len(NonMissing[i]) <= 200
    /\ Hits("SSN") = Len(NonMissing)
    /\ ret[1].type = None

\* a short first value followed by a value of more than 200 characters: SSN is
\* detected
C13_WitnessLongElsewhere ==
    /\ PastEarlyExits
    /\ Len(NonMissing) >= 2
    /\ str_len(NonMissing[1]) <= 200
    /\ str_len(NonMissing[2]) > 200
    /\ ret[1].type = "SSN"

\* the column the loop has just processed has no value to look at for the
\* pattern detector: no row, only missing values, or a non-textual declared type
NoValues(column) == \A i \in 1..Len(column.values) : column.values[i].missing

Unreadable(column) == NoValues(column) \/ column.dtype \notin {"object", "string"}

\* the column the loop has just processed has a finding
HasFinding == \E i \in 1..Len(results) : results[i].ColumnName = df[idx].name

\* C14: for a processed column that is empty, all-missing or non-textual the
\* pattern detector has answered (no type, confidence 0); the column is flagged
\* only if the name heuristic gives a type, and then with that type and method
\* Column Name Heuristic; when it is flagged and empty or all-missing its finding
\* has uniqueness 0, risk score 0 and category Low; and the analysis of a dataset
\* never stops before returning its findings: it has returned after its last
\* column, or the loop can take its next column, or the return can be taken.
C14_NoValuesNoDetection ==
    /\ (InLoop /\ Unreadable(df[idx])) =>
           /\ pattern_sig = [type |-> None, conf |-> Zero]
           /\ HasFinding <=> heuristic_sig.type # None
           /\ HasFinding =>
                  /\ LastFinding.ColumnName = df[idx].name
                  /\ LastFinding.PIIType = heuristic_sig.type
                  /\ LastFinding.DetectionMethod = "Column Name Heuristic"
                  /\ NoValues(df[idx]) =>
                         /\ LastFinding.Uniqueness = 0
                         /\ LastFinding.RiskScore = 0
                         /\ LastFinding.RiskCategory = "Low"
    /\ call = "analyze_dataset" =>
           \/ Len(ret) = 1 /\ idx = Len(df)
           \/ Len(ret) = 0 /\ idx < Len(df)
           \/ Len(ret) = 0 /\ idx = Len(df)

\* a column of missing values only, named "ssn": flagged through its name, with
\* uniqueness 0, risk score 0 and category Low
C14_Witness ==
    /\ InLoop
    /\ df[idx].name = SsnName
    /\ Len(df[idx].values) = 2
    /\ NoValues(df[idx])
    /\ HasFinding
    /\ LastFinding.PIIType = "SSN"
    /\ LastFinding.RiskScore = 0
    /\ LastFinding.RiskCategory = "Low"

\* a float64 column of SSN texts under a name without keyword: not flagged
C14_WitnessNonTextual ==
    /\ InLoop
    /\ df[idx].name = MiscName
    /\ df[idx].dtype = "float64"
    /\ Len(df[idx].values) > 0
    /\ \A i \in 1..Len(df[idx].values) :
           ~df[idx].values[i].missing /\ str_contains(df[idx].values[i], "SSN")
    /\ ~HasFinding
    /\ Len(ret) = 1

\* the entries of the impact table, by value
Impact5 == {"SSN", "CREDIT_CARD", "NATIONAL_ID", "MEDICAL"}

Impact4 == {"EMAIL", "PHONE", "ADDRESS", "GPS_COORDINATES", "IBAN"}

Impact3 == {"DATE_OF_BIRTH", "DOB", "NAME", "SALARY"}

Impact2 == {"ID", "AGE", "GENDER", "IP_ADDRESS"}

Impact1 == {"URL"}

Mapped == Impact5 \cup Impact4 \cup Impact3 \cup Impact2 \cup Impact1

TableValue(t) ==
    CASE t \in Impact5 -> 5
      [] t \in Impact4 -> 4
      [] t \in Impact3 -> 3
      [] t \in Impact2 -> 2
      [] t \in Impact1 -> 1

\* the prefix recommend_action puts before the text for a risk category
MarkerOf(category) ==
    CASE category = "High" -> "(red circle) URGENT: "
      [] category = "Medium" -> "(yellow circle) "
      [] OTHER -> "(green circle) "

\* C15: every type a detector returns and every type in a finding has an entry
\* in the impact table, and the finding's impact is that entry, between 1 and 5;
\* for a type with no entry the impact lookup gives 2 and recommend_action gives
\* the category's marker followed by "Apply appropriate anonymization technique".
C15_TypesMapped ==
    /\ Returned("detect_column_name_heuristic") =>
           (ret[1].type = None \/ ret[1].type \in DOMAIN impact_scores)
    /\ Returned("detect_pattern_based") =>
           (ret[1].type = None \/ ret[1].type \in DOMAIN impact_scores)
    /\ call = "analyze_dataset" =>
           \A i \in 1..Len(results) :
               /\ results[i].PIIType \in DOMAIN impact_scores
               /\ results[i].PIIType \in Mapped
               /\ results[i].Impact = TableValue(results[i].PIIType)
               /\ results[i].Impact \in 1..5
    /\ Returned("recommend_action") =>
           /\ Len(ret[1]) > 0
           /\ arg.pii_type \notin Mapped =>
                  /\ impact_of(arg.pii_type) = 2
                  /\ ret[1] = MarkerOf(arg.risk_category)
                                  \o "Apply appropriate anonymization technique"
           /\ arg.pii_type \in Mapped =>
                  impact_of(arg.pii_type) = TableValue(arg.pii_type)

\* a finding of type NAME, which only the name heuristic returns, with impact 3
C15_Witness ==
    /\ InLoop
    /\ Len(results) > 0
    /\ LastFinding.PIIType = "NAME"
    /\ LastFinding.Impact = 3

\* recommend_action on a type with no entry
C15_WitnessUnmapped ==
    /\ Returned("recommend_action")
    /\ arg.pii_type = "PASSPORT"
    /\ arg.risk_category = "Medium"
    /\ ret[1] = "(yellow circle) Apply appropriate anonymization technique"

\* the normalized form of the name detect_column_name_heuristic was called on
Normalized == Strip(Lower(arg))

\* keyword k is the first or the last underscore-delimited segment of the name
SegmentOf(k, name) == k = FirstSegment(name) \/ k = LastSegment(name)

\* C16: the heuristic's confidence is 0, 0.8 or 0.9, never 0.7; a keyword that
\* equals the first or last segment of the normalized name is the whole name or
\* stands next to an underscore in it, so the 0.9 or the 0.8 rule applies to it;
\* the type is absent exactly when the confidence is 0.
C16_NoSegmentTier ==
    Returned("detect_column_name_heuristic") =>
        /\ \/ ret[1].conf.n = 0
           \/ EqF(ret[1].conf, Frac(8, 10))
           \/ EqF(ret[1].conf, Frac(9, 10))
        /\ ~EqF(ret[1].conf, Frac(7, 10))
        /\ \A k \in AllKeywords :
               SegmentOf(k, Normalized) =>
                   \/ k = Normalized
                   \/ Contains(Normalized, Underscore \o k)
                   \/ Contains(Normalized, k \o Underscore)
        /\ ret[1].type = None <=> ret[1].conf.n = 0

\* the keyword "email" is the last segment of "user_email": 0.8 by the token rule
C16_Witness ==
    /\ Returned("detect_column_name_heuristic")
    /\ arg = UserEmailName
    /\ SegmentOf(EmailKeyword, Normalized)
    /\ ret[1].type = "EMAIL"
    /\ EqF(ret[1].conf, Frac(8, 10))

\* type t is a candidate with a ratio above 0.5: the column passes the early
\* exits, its first non-missing value has at most 200 characters and t matches
\* more than half of the non-missing values
Qualifies(t) ==
    /\ PastEarlyExits
    /\ str_len(NonMissing[1]) <= 200
    /\ Majority(t)

\* the candidates of a column past the early exits, none otherwise
Candidates ==
    IF PastEarlyExits THEN pattern_matches(NonMissing) ELSE <<>>

\* no type of the priority list is a candidate with a ratio above 0.5: the
\* priority loop of lines 122-124 ends without returning
PriorityLoopFallsThrough ==
    \A i \in 1..Len(priority_order) :
        priority_order[i] \in DOMAIN Candidates
            => ~(2 * Candidates[priority_order[i]].n > Candidates[priority_order[i]].d)

\* C17: detect_pattern_based returns (no type, 0) or a type of the pattern
\* library with a confidence above 0.5 and at most 1; every type of the library is
\* in the priority order, so when the priority loop falls through, the
\* highest-ratio candidate of the fallback is not above 0.5 and nothing is
\* returned by it; the result is the first type of the priority order that is a
\* candidate with a ratio above 0.5, with that ratio, or no detection.
C17_FallbackNeverReturns ==
    Returned("detect_pattern_based") =>
        /\ \/ ret[1] = [type |-> None, conf |-> Zero]
           \/ /\ ret[1].type \in PatternTypes
              /\ 2 * ret[1].conf.n > ret[1].conf.d
              /\ ret[1].conf.n <= ret[1].conf.d
        /\ PatternTypes \subseteq {priority_order[i] : i \in 1..Len(priority_order)}
        /\ (PriorityLoopFallsThrough /\ DOMAIN Candidates # {}) =>
               /\ ~(2 * best_match(Candidates).conf.n > best_match(Candidates).conf.d)
               /\ ret[1] = [type |-> None, conf |-> Zero]
        /\ \A i \in 1..Len(FixedOrder) :
               (Qualifies(FixedOrder[i]) /\ \A j \in 1..(i - 1) : ~Qualifies(FixedOrder[j]))
                   => /\ ret[1].type = FixedOrder[i]
                      /\ EqF(ret[1].conf, Frac(Hits(FixedOrder[i]), Len(NonMissing)))
        /\ (\A i \in 1..Len(FixedOrder) : ~Qualifies(FixedOrder[i]))
               => ret[1] = [type |-> None, conf |-> Zero]

\* the fallback is reached with SSN a candidate at 1/3: its best candidate is not
\* above 0.5 and the detector returns no detection
C17_Witness ==
    /\ PastEarlyExits
    /\ PriorityLoopFallsThrough
    /\ "SSN" \in DOMAIN Candidates
    /\ EqF(best_match(Candidates).conf, Frac(1, 3))
    /\ ret[1].type = None

=============================================================================
